---- MODULE Spec2Model ----
(***************************************************************************)
(* State-machine model of the OpenAI usage tracker                         *)
(* (src/openai_usage_monitor.py, src/example_integration.py).              *)
(*                                                                         *)
(* The SQLite file is the shared state.  Several operating-system          *)
(* processes (Procs) each run tracker methods against it.  Every method    *)
(* opens its own connection; with the sqlite3 module's default isolation   *)
(* level the first INSERT/UPDATE/DELETE/REPLACE of a connection opens a    *)
(* transaction and takes the database's single write lock, SELECTs take    *)
(* no write lock, and conn.commit() publishes the transaction's writes     *)
(* and releases the lock.  db is the committed database, txn[p] the        *)
(* working copy of process p's open transaction.                           *)
(*                                                                         *)
(* Time is a discrete UTC clock `now`; one tick is the resolution of       *)
(* int(time.time()) and of CURRENT_TIMESTAMP, and a calendar day is        *)
(* DayLen ticks long.  datetime.now() is the host's local time,            *)
(* now + utc_offset.  Costs are integers (a fixed-point unit of money).    *)
(***************************************************************************)
EXTENDS Integers, Sequences, FiniteSets, TLC

\* ---------------------------------------------------------------- bounds
MaxCalls == 3        \* operations started in one behaviour
MaxTime  == 1        \* clock ticks in one behaviour
DayLen   == 3        \* clock ticks per calendar day
BaseYear == 2023     \* the calendar year the clock's tick 0 begins
YearSpan == 2        \* calendar years the reset-time inputs range over

\* ------------------------------------------------------------- constants
NULL   == "NULL"     \* SQL NULL and Python None
NoTime == 0 - 1      \* a NULL time column
NoProc == 0
Procs  == {1, 2}
StartTime == DayLen  \* the clock starts at 00:00 UTC of day 1

VARIABLES
    db,          \* the committed database: one sequence of rows per table
    txn,         \* txn[p]: working copy of p's open transaction, or NoTxn
    lock,        \* the process holding SQLite's write lock, or NoProc
    pc,          \* pc[p]: the statement process p executes next
    call,        \* call[p]: the arguments and locals of p's running method
    now,         \* the UTC clock
    utc_offset,  \* local time minus UTC on this host
    ncalls,      \* operations started so far
    main         \* main[p]: the locals of p's run of main() and its position

vars == <<db, txn, lock, pc, call, now, utc_offset, ncalls, main>>

NoTxn == [none |-> TRUE]

\* Python truthiness of an Optional[str]: None and "" are falsy.
Truthy(s) == s # NULL /\ s # ""

\* datetime.now(): naive local time.
LocalNow == now + utc_offset

\* The calendar date of a timestamp: strftime("%Y-%m-%d") and SQL DATE().
DateOf(t) == t \div DayLen

RECURSIVE SumSeq(_)
\* SUM(...) over a sequence of numbers (0 for no row).
SumSeq(s) == IF s = <<>> THEN 0 ELSE Head(s) + SumSeq(Tail(s))

\* ------------------------------------------------------------ the schema
Tables ==
    {"api_keys", "usage_sessions", "api_calls", "daily_usage", "usage_alerts",
     "budget_settings"}

\* The columns of api_calls in the order CREATE TABLE declares them: the
\* order of the values in a row that SELECT * returns (index 0 first).
ApiCallsColumns ==
    <<"id", "session_id", "key_id", "timestamp", "model", "prompt_tokens",
      "completion_tokens", "total_tokens", "cost", "created_at">>

\* The columns of every table as init_database's CREATE TABLE statements
\* declare them.
CreateTableColumns ==
    [api_keys        |-> <<"id", "key_id", "key_name", "key_description",
                           "api_key_hash", "is_active", "created_at">>,
     usage_sessions  |-> <<"id", "session_id", "key_id", "start_time", "end_time",
                           "total_tokens", "prompt_tokens", "completion_tokens",
                           "total_cost", "model", "is_active", "created_at">>,
     api_calls       |-> ApiCallsColumns,
     daily_usage     |-> <<"id", "date", "key_id", "total_tokens", "total_cost",
                           "api_calls_count", "models_used", "avg_burn_rate",
                           "peak_burn_rate", "created_at">>,
     usage_alerts    |-> <<"id", "key_id", "alert_type", "threshold_value",
                           "current_value", "message", "is_active", "triggered_at">>,
     budget_settings |-> <<"id", "month_year", "key_id", "budget_limit",
                           "token_limit", "alert_thresholds", "created_at">>]

\* init_database on a new file: the tables, all empty.  columns[t] is the
\* column list of table t (empty: the table does not exist), the other
\* fields are the tables' rows.
EmptyDb ==
    [api_keys        |-> <<>>,
     usage_sessions  |-> <<>>,
     api_calls       |-> <<>>,
     daily_usage     |-> <<>>,
     usage_alerts    |-> <<>>,
     budget_settings |-> <<>>,
     columns         |-> CreateTableColumns]

\* A usage_sessions row as create_session inserts it: the columns it names,
\* every other column at its schema default.
NewSession(session_id, key_id, start_time) ==
    [session_id        |-> session_id,
     key_id            |-> key_id,
     start_time        |-> start_time,
     end_time          |-> NoTime,
     total_tokens      |-> 0,
     prompt_tokens     |-> 0,
     completion_tokens |-> 0,
     total_cost        |-> 0,
     model             |-> NULL,
     is_active         |-> 1]

\* An api_calls row.
NewCall(session_id, key_id, timestamp, model, prompt_tokens, completion_tokens, total_tokens, cost) ==
    [session_id        |-> session_id,
     key_id            |-> key_id,
     timestamp         |-> timestamp,
     model             |-> model,
     prompt_tokens     |-> prompt_tokens,
     completion_tokens |-> completion_tokens,
     total_tokens      |-> total_tokens,
     cost              |-> cost]

\* The arguments and locals of a running method; NULL / 0 where unused.
NoCall ==
    [op |-> "none", session_id |-> NULL, key_id |-> NULL, model |-> NULL,
     prompt_tokens |-> 0, completion_tokens |-> 0, total_tokens |-> 0,
     cost |-> 0, at |-> NoTime, i |-> 0, next |-> "idle",
     date |-> NoTime, count |-> 0, models |-> {}, burn_rates |-> <<>>,
     usage |-> [tokens_used |-> 0, token_limit |-> 1, total_cost |-> 0,
                burn_rate |-> 0],
     burn_rate |-> <<0, 1>>,
     current_time |-> [wall |-> NoTime, aware |-> FALSE, tzinfo |-> 0],
     timezone |-> NULL,
     reset_time |-> [wall |-> NoTime, aware |-> FALSE, tzinfo |-> 0, error |-> NULL],
     tokens_left |-> 0, predicted_end_time |-> <<0, 1>>,
     returned |-> <<>>]

\* The locals of a run of main() that outlive a pass of its loop, and its
\* position: `at` is the statement main executes next ("exited" after the
\* process has ended, with its exit status), colors whether the colour codes
\* have been assigned.
NoMain ==
    [at |-> "top", demo |-> FALSE, key_id |-> NULL, timezone |-> "UTC",
     active_session |-> <<>>, recent_calls |-> <<>>,
     tokens_used |-> 0, total_cost |-> 0, token_limit |-> 0, elapsed_ticks |-> 0,
     current_time |-> [wall |-> NoTime, aware |-> FALSE, tzinfo |-> 0],
     burn_rate |-> <<0, 1>>,
     reset_time |-> [wall |-> NoTime, aware |-> FALSE, tzinfo |-> 0, error |-> NULL],
     predicted_end_time |-> <<0, 1>>,
     colors |-> FALSE, raised |-> NULL, exit_status |-> 0 - 1]

\* ------------------------------------------------------- SQLite's locking
\* A connection's first write statement needs the database's write lock.
CanWrite(p) == lock = NoProc

\* The database as p's connection reads it: its own open transaction's
\* writes when it has one, the committed database otherwise.
View(p) == IF txn[p] = NoTxn THEN db ELSE txn[p]

\* conn.commit(): the transaction's writes become the committed database.
Commit(p) ==
    /\ pc[p] = "commit"
    /\ db' = View(p)
    /\ txn' = [txn EXCEPT ![p] = NoTxn]
    /\ lock' = IF lock = p THEN NoProc ELSE lock
    /\ pc' = [pc EXCEPT ![p] = call[p].next]
    /\ call' = [call EXCEPT ![p] =
                 IF call[p].next = "idle" THEN NoCall ELSE [@ EXCEPT !.next = "idle"]]
    /\ UNCHANGED <<now, utc_offset, ncalls, main>>

\* ------------------------------------------------------- create_session
\* session_id = f"session_{int(time.time())}" when none is given.
AutoSessionId(t) == "session_" \o ToString(t)

\* `if key_id is None: key_id = self.key_id`
ResolveKey(key_id, self_key_id) == IF key_id = NULL THEN self_key_id ELSE key_id

\* The WHERE clause of the close-previous UPDATE: `key_id = ?` for a truthy
\* key_id, `key_id IS NULL` otherwise.
SameScope(row, key_id) ==
    IF Truthy(key_id) THEN row.key_id # NULL /\ row.key_id = key_id
    ELSE row.key_id = NULL

\* UPDATE usage_sessions SET is_active = 0, end_time = ? WHERE is_active = 1 AND ...
CloseActive(rows, key_id, t) ==
    [i \in DOMAIN rows |->
        IF rows[i].is_active = 1 /\ SameScope(rows[i], key_id)
        THEN [rows[i] EXCEPT !.is_active = 0, !.end_time = t]
        ELSE rows[i]]

\* INSERT OR REPLACE INTO usage_sessions: session_id is UNIQUE, so a row with
\* the same session_id is deleted before the new row is inserted.
InsertOrReplaceSession(rows, new) ==
    Append(SelectSeq(rows, LAMBDA r : r.session_id # new.session_id), new)

\* create_session up to and including the close-previous UPDATE, called as
\* method `op`; `next` is where the caller goes on after the commit.  (The
\* caller says what becomes of main.)
BeginCreateSession(p, session_id, key_id, self_key_id, op, next) ==
    /\ pc[p] = "idle"
    /\ ncalls < MaxCalls
    /\ CanWrite(p)
    /\ LET sid == IF ~Truthy(session_id) THEN AutoSessionId(now) ELSE session_id
           k   == ResolveKey(key_id, self_key_id)
       IN  /\ txn' = [txn EXCEPT ![p] =
                        [db EXCEPT !.usage_sessions = CloseActive(@, k, LocalNow)]]
           /\ call' = [call EXCEPT ![p] =
                        [NoCall EXCEPT !.op = op, !.session_id = sid,
                                       !.key_id = k, !.at = LocalNow,
                                       !.next = next]]
    /\ lock' = p
    /\ pc' = [pc EXCEPT ![p] = "cs_insert"]
    /\ ncalls' = ncalls + 1
    /\ UNCHANGED <<db, now, utc_offset>>

\* create_session called by a client.
create_session_update(p, session_id, key_id, self_key_id) ==
    /\ BeginCreateSession(p, session_id, key_id, self_key_id, "create_session", "idle")
    /\ UNCHANGED main

\* create_session's INSERT OR REPLACE of the new row.
create_session_insert(p) ==
    /\ pc[p] = "cs_insert"
    /\ txn' = [txn EXCEPT ![p].usage_sessions =
                 InsertOrReplaceSession(@,
                     NewSession(call[p].session_id, call[p].key_id, LocalNow))]
    /\ pc' = [pc EXCEPT ![p] = "commit"]
    /\ UNCHANGED <<db, lock, call, now, utc_offset, ncalls, main>>

\* ---------------------------------------------------------- log_api_call
\* UPDATE usage_sessions SET total_tokens = total_tokens + ?, ... WHERE session_id = ?
\* Variant: the UPDATE leaves prompt_tokens out of its SET list.
AddToSession_NoPrompt(row, total_tokens, prompt_tokens, completion_tokens, cost, model) ==
    [row EXCEPT !.total_tokens      = @ + total_tokens,
                !.completion_tokens = @ + completion_tokens,
                !.total_cost        = @ + cost,
                !.model             = model]

\* Variant: the UPDATE writes "column = ?" where the code writes
\* "column = column + ?".
AddToSession_Overwrite(row, total_tokens, prompt_tokens, completion_tokens, cost, model) ==
    [row EXCEPT !.total_tokens      = total_tokens,
                !.prompt_tokens     = prompt_tokens,
                !.completion_tokens = completion_tokens,
                !.total_cost        = cost,
                !.model             = model]

AddToSession(row, total_tokens, prompt_tokens, completion_tokens, cost, model) ==
    [row EXCEPT !.total_tokens      = @ + total_tokens,
                !.prompt_tokens     = @ + prompt_tokens,
                !.completion_tokens = @ + completion_tokens,
                !.total_cost        = @ + cost,
                !.model             = model]

\* Variant: total_tokens counts the prompt only.
TotalTokens_PromptOnly(prompt_tokens, completion_tokens) == prompt_tokens

\* total_tokens = prompt_tokens + completion_tokens
TotalTokens(prompt_tokens, completion_tokens) == prompt_tokens + completion_tokens

\* log_api_call up to and including the INSERT INTO api_calls.
log_api_call_insert(p, session_id, model, prompt_tokens, completion_tokens, cost, key_id, self_key_id) ==
    /\ pc[p] = "idle"
    /\ ncalls < MaxCalls
    /\ CanWrite(p)
    /\ LET k            == ResolveKey(key_id, self_key_id)
           total_tokens == TotalTokens(prompt_tokens, completion_tokens)
       IN  /\ txn' = [txn EXCEPT ![p] =
                        [db EXCEPT !.api_calls =
                            Append(@, NewCall(session_id, k, LocalNow, model,
                                              prompt_tokens, completion_tokens,
                                              total_tokens, cost))]]
           /\ call' = [call EXCEPT ![p] =
                        [NoCall EXCEPT !.op = "log_api_call",
                                       !.session_id = session_id, !.key_id = k,
                                       !.model = model,
                                       !.prompt_tokens = prompt_tokens,
                                       !.completion_tokens = completion_tokens,
                                       !.total_tokens = total_tokens,
                                       !.cost = cost, !.at = LocalNow]]
    /\ lock' = p
    /\ pc' = [pc EXCEPT ![p] = "log_update"]
    /\ ncalls' = ncalls + 1
    /\ UNCHANGED <<db, now, utc_offset, main>>

\* log_api_call's UPDATE of the session totals.
log_api_call_update(p) ==
    /\ pc[p] = "log_update"
    /\ txn' = [txn EXCEPT ![p].usage_sessions =
                 [i \in DOMAIN @ |->
                    IF @[i].session_id = call[p].session_id
                    THEN AddToSession(@[i], call[p].total_tokens,
                                      call[p].prompt_tokens,
                                      call[p].completion_tokens,
                                      call[p].cost, call[p].model)
                    ELSE @[i]]]
    /\ pc' = [pc EXCEPT ![p] = "commit"]
    /\ UNCHANGED <<db, lock, call, now, utc_offset, ncalls, main>>

\* ---------------------------------------------------- create_demo_session
DemoCalls == 10
DemoModels == <<"gpt-4", "gpt-3.5-turbo", "gpt-4-turbo">>
MinutesPerTick == (60 * 24) \div DayLen

\* The i-th simulated call, seeded at time `at`: call_time = now - (60 - 6i)
\* minutes (in whole ticks), 100 + 50i prompt and 50 + 25i completion tokens,
\* cost = prompt * 0.00003 + completion * 0.00006 (here in units of 0.00001).
DemoCall(session_id, key_id, at, i) ==
    LET prompt_tokens     == 100 + (i * 50)
        completion_tokens == 50 + (i * 25)
    IN  NewCall(session_id, key_id,
                at - ((60 - (i * 6)) \div MinutesPerTick),
                DemoModels[(i % Len(DemoModels)) + 1],
                prompt_tokens, completion_tokens,
                prompt_tokens + completion_tokens,
                (prompt_tokens * 3) + (completion_tokens * 6))

\* create_demo_session: tracker.create_session("demo_session", key_id=tracker.key_id)
create_demo_session(p, self_key_id) ==
    /\ BeginCreateSession(p, "demo_session", self_key_id, self_key_id,
                          "create_demo_session", "demo_insert")
    /\ UNCHANGED main

\* One pass of the seeding loop: one INSERT INTO api_calls, committed.
demo_insert(p) ==
    /\ pc[p] = "demo_insert"
    /\ CanWrite(p)
    /\ LET at == IF call[p].i = 0 THEN LocalNow ELSE call[p].at
       IN  /\ db' = [db EXCEPT !.api_calls =
                       Append(@, DemoCall(call[p].session_id, call[p].key_id, at,
                                          call[p].i))]
           /\ call' = [call EXCEPT ![p].i = @ + 1, ![p].at = at]
    /\ pc' = [pc EXCEPT ![p] =
                IF call[p].i + 1 = DemoCalls THEN "demo_select" ELSE "demo_insert"]
    /\ UNCHANGED <<txn, lock, now, utc_offset, ncalls, main>>

\* SELECT SUM(total_tokens), SUM(prompt_tokens), SUM(completion_tokens), SUM(cost)
\* FROM api_calls WHERE session_id = ?
demo_select(p) ==
    /\ pc[p] = "demo_select"
    /\ LET mine == SelectSeq(db.api_calls,
                             LAMBDA r : r.session_id = call[p].session_id)
           n    == Len(mine)
       IN  call' = [call EXCEPT
                ![p].total_tokens = SumSeq([j \in 1..n |-> mine[j].total_tokens]),
                ![p].prompt_tokens = SumSeq([j \in 1..n |-> mine[j].prompt_tokens]),
                ![p].completion_tokens =
                    SumSeq([j \in 1..n |-> mine[j].completion_tokens]),
                ![p].cost = SumSeq([j \in 1..n |-> mine[j].cost])]
    /\ pc' = [pc EXCEPT ![p] = "demo_update"]
    /\ UNCHANGED <<db, txn, lock, now, utc_offset, ncalls, main>>

\* UPDATE usage_sessions SET total_tokens = ?, ..., model = 'gpt-4'
\* WHERE session_id = ?, committed.
demo_update(p) ==
    /\ pc[p] = "demo_update"
    /\ CanWrite(p)
    /\ db' = [db EXCEPT !.usage_sessions =
                [j \in DOMAIN @ |->
                    IF @[j].session_id = call[p].session_id
                    THEN [@[j] EXCEPT !.total_tokens = call[p].total_tokens,
                                      !.prompt_tokens = call[p].prompt_tokens,
                                      !.completion_tokens = call[p].completion_tokens,
                                      !.total_cost = call[p].cost,
                                      !.model = "gpt-4"]
                    ELSE @[j]]]
    /\ pc' = [pc EXCEPT ![p] = "idle"]
    /\ call' = [call EXCEPT ![p] = NoCall]
    /\ UNCHANGED <<txn, lock, now, utc_offset, ncalls, main>>

\* ---------------------------------------------------------- key registry
\* Variant: the digest is the key itself.
hash_api_key_Plain(api_key) == api_key

\* hashlib.sha256(api_key.encode()).hexdigest(): a one-way digest.
hash_api_key(api_key) == "sha256(" \o api_key \o ")"

\* key_id = f"key_{datetime.now().strftime('%Y%m%d_%H%M%S')}"
NewKeyId(t) == "key_" \o ToString(t)

\* add_key: one INSERT INTO api_keys, committed; key_id is UNIQUE, and on the
\* IntegrityError the method raises ValueError and nothing is written.
add_key(p, api_key, key_name, key_description) ==
    /\ pc[p] = "idle"
    /\ ncalls < MaxCalls
    /\ CanWrite(p)
    /\ LET key_id == NewKeyId(LocalNow)
           taken  == \E j \in DOMAIN db.api_keys : db.api_keys[j].key_id = key_id
       IN  db' = IF taken THEN db
                 ELSE [db EXCEPT !.api_keys =
                         Append(@, [key_id          |-> key_id,
                                    key_name        |-> key_name,
                                    key_description |-> key_description,
                                    api_key_hash    |-> hash_api_key(api_key),
                                    is_active       |-> 1,
                                    created_at      |-> now])]
    /\ ncalls' = ncalls + 1
    /\ UNCHANGED <<txn, lock, pc, call, now, utc_offset, main>>

\* Variant: removing a key also deletes the events recorded under it.
remove_key_Cascade(p, key_id, key_name) ==
    /\ pc[p] = "idle"
    /\ ncalls < MaxCalls
    /\ CanWrite(p)
    /\ db' = IF Truthy(key_id)
             THEN [db EXCEPT !.api_keys = SelectSeq(@, LAMBDA r : r.key_id # key_id),
                             !.api_calls = SelectSeq(@, LAMBDA r : r.key_id # key_id)]
             ELSE db
    /\ ncalls' = ncalls + 1
    /\ UNCHANGED <<txn, lock, pc, call, now, utc_offset, main>>

\* remove_key: DELETE FROM api_keys WHERE key_id = ? (a truthy key_id), else
\* WHERE key_name = ? (a truthy key_name), else ValueError; committed.
remove_key(p, key_id, key_name) ==
    /\ pc[p] = "idle"
    /\ ncalls < MaxCalls
    /\ CanWrite(p)
    /\ db' = IF Truthy(key_id)
             THEN [db EXCEPT !.api_keys = SelectSeq(@, LAMBDA r : r.key_id # key_id)]
             ELSE IF Truthy(key_name)
             THEN [db EXCEPT !.api_keys =
                      SelectSeq(@, LAMBDA r : r.key_name # key_name)]
             ELSE db
    /\ ncalls' = ncalls + 1
    /\ UNCHANGED <<txn, lock, pc, call, now, utc_offset, main>>

\* update_key_status: UPDATE api_keys SET is_active = ? WHERE key_id = ?
update_key_status(p, key_id, is_active) ==
    /\ pc[p] = "idle"
    /\ ncalls < MaxCalls
    /\ CanWrite(p)
    /\ db' = [db EXCEPT !.api_keys =
                [j \in DOMAIN @ |->
                    IF @[j].key_id = key_id
                    THEN [@[j] EXCEPT !.is_active = IF is_active THEN 1 ELSE 0]
                    ELSE @[j]]]
    /\ ncalls' = ncalls + 1
    /\ UNCHANGED <<txn, lock, pc, call, now, utc_offset, main>>

\* ------------------------------------------------ reading the key registry
RECURSIVE InsertByCreatedAtDesc(_, _)
InsertByCreatedAtDesc(sorted, r) ==
    IF sorted = <<>> THEN <<r>>
    ELSE IF Head(sorted).created_at >= r.created_at
         THEN <<Head(sorted)>> \o InsertByCreatedAtDesc(Tail(sorted), r)
         ELSE <<r>> \o sorted

RECURSIVE OrderByCreatedAtDesc(_)
\* ORDER BY created_at DESC
OrderByCreatedAtDesc(rows) ==
    IF rows = <<>> THEN <<>>
    ELSE InsertByCreatedAtDesc(OrderByCreatedAtDesc(SubSeq(rows, 1, Len(rows) - 1)),
                               rows[Len(rows)])

\* The dict list_keys and get_key build from one row of
\* SELECT key_id, key_name, key_description, is_active, created_at.
KeyDict(row) ==
    [key_id          |-> row.key_id,
     key_name        |-> row.key_name,
     key_description |-> row.key_description,
     is_active       |-> row.is_active # 0,
     created_at      |-> row.created_at]

\* list_keys(): the list of dicts it returns.
ListKeys(rows) ==
    LET ordered == OrderByCreatedAtDesc(rows)
    IN  [j \in DOMAIN ordered |-> KeyDict(ordered[j])]

\* get_key(key_id, key_name): the dict of the first row WHERE key_id = ? (a
\* truthy key_id), else WHERE key_name = ? (a truthy key_name); None (here
\* the empty sequence) when no argument is truthy or no row is found.
GetKey(rows, key_id, key_name) ==
    LET found == IF Truthy(key_id)
                 THEN SelectSeq(rows, LAMBDA r : r.key_id = key_id)
                 ELSE IF Truthy(key_name)
                 THEN SelectSeq(rows, LAMBDA r : r.key_name = key_name)
                 ELSE <<>>
    IN  IF found = <<>> THEN <<>> ELSE <<KeyDict(found[1])>>

\* timestamp >= DATETIME('now', '-{days} days'): the text of an isoformat
\* timestamp ("date T time", local) against "date time" of the UTC clock;
\* 'T' sorts after ' ', so the dates decide and the cutoff's whole date is in.
InWindow(timestamp, days) == DateOf(timestamp) >= DateOf(now - (days * DayLen))

\* get_key_usage_summary(key_id, days): SUM(total_tokens), SUM(cost), COUNT(*)
\* of the key's api_calls in the window.
KeyUsageSummary(rows, key_id, days) ==
    LET mine == SelectSeq(rows, LAMBDA r : r.key_id # NULL /\ r.key_id = key_id
                                           /\ InWindow(r.timestamp, days))
        n    == Len(mine)
    IN  [key_id       |-> key_id,
         total_tokens |-> SumSeq([j \in 1..n |-> mine[j].total_tokens]),
         total_cost   |-> SumSeq([j \in 1..n |-> mine[j].cost]),
         total_calls  |-> n,
         days         |-> days]

\* A method that only reads: its SELECTs and its return value.
Reads(p, op, returned) ==
    /\ pc[p] = "idle"
    /\ ncalls < MaxCalls
    /\ call' = [call EXCEPT ![p] = [NoCall EXCEPT !.op = op, !.returned = returned]]
    /\ pc' = [pc EXCEPT ![p] = "returned"]
    /\ ncalls' = ncalls + 1
    /\ UNCHANGED <<db, txn, lock, now, utc_offset, main>>

list_keys(p) == Reads(p, "list_keys", ListKeys(db.api_keys))

get_key(p, key_id, key_name) ==
    Reads(p, "get_key", GetKey(db.api_keys, key_id, key_name))

get_key_usage_summary(p, key_id, days) ==
    Reads(p, "get_key_usage_summary", <<KeyUsageSummary(db.api_calls, key_id, days)>>)

\* ORDER BY total_tokens DESC over the groups, which come in key order; equal
\* totals keep that order.
RECURSIVE InsertByTotalTokensDesc(_, _)
InsertByTotalTokensDesc(row, rows) ==
    IF rows = <<>> THEN <<row>>
    ELSE IF row.total_tokens >= Head(rows).total_tokens THEN <<row>> \o rows
    ELSE <<Head(rows)>> \o InsertByTotalTokensDesc(row, Tail(rows))

RECURSIVE OrderByTotalTokensDesc(_)
OrderByTotalTokensDesc(rows) ==
    IF rows = <<>> THEN <<>>
    ELSE InsertByTotalTokensDesc(Head(rows), OrderByTotalTokensDesc(Tail(rows)))

\* compare_keys(days): api_keys LEFT JOIN api_calls ON the key_id, WHERE the
\* call's timestamp is in the window (a key with no joined call has a NULL
\* timestamp and is filtered out), GROUP BY key; then SUM(total_tokens),
\* SUM(cost), COUNT(*) over every api_calls row of the window.
CompareKeys(keys, calls, days) ==
    LET Joined(k) == SelectSeq(calls, LAMBDA r : r.key_id # NULL
                                                 /\ r.key_id = k.key_id
                                                 /\ InWindow(r.timestamp, days))
        groups    == SelectSeq(keys, LAMBDA k : Joined(k) # <<>>)
        Row(k)    == LET mine == Joined(k)
                     IN  [key_id       |-> k.key_id,
                          key_name     |-> k.key_name,
                          total_tokens |->
                              SumSeq([j \in 1..Len(mine) |-> mine[j].total_tokens]),
                          total_cost   |->
                              SumSeq([j \in 1..Len(mine) |-> mine[j].cost]),
                          total_calls  |-> Len(mine)]
        all       == SelectSeq(calls, LAMBDA r : InWindow(r.timestamp, days))
    IN  [key_comparisons |->
             OrderByTotalTokensDesc([j \in 1..Len(groups) |-> Row(groups[j])]),
         total_tokens    |-> SumSeq([j \in 1..Len(all) |-> all[j].total_tokens]),
         total_cost      |-> SumSeq([j \in 1..Len(all) |-> all[j].cost]),
         total_calls     |-> Len(all),
         period_days     |-> days]

compare_keys(p, days) ==
    Reads(p, "compare_keys", <<CompareKeys(db.api_keys, db.api_calls, days)>>)

\* The caller has used the value a reading method returned.
method_return(p) ==
    /\ pc[p] = "returned"
    /\ pc' = [pc EXCEPT ![p] = "idle"]
    /\ call' = [call EXCEPT ![p] = NoCall]
    /\ UNCHANGED <<db, txn, lock, now, utc_offset, ncalls, main>>

\* ---------------------------------------------------- update_daily_usage
RECURSIVE InsertByTimestamp(_, _)
InsertByTimestamp(sorted, r) ==
    IF sorted = <<>> THEN <<r>>
    ELSE IF Head(sorted).timestamp <= r.timestamp
         THEN <<Head(sorted)>> \o InsertByTimestamp(Tail(sorted), r)
         ELSE <<r>> \o sorted

RECURSIVE OrderByTimestamp(_)
\* ORDER BY timestamp (rows of equal timestamp in insertion order).
OrderByTimestamp(rows) ==
    IF rows = <<>> THEN <<>>
    ELSE InsertByTimestamp(OrderByTimestamp(SubSeq(rows, 1, Len(rows) - 1)),
                           rows[Len(rows)])

\* The api_calls rows WHERE DATE(timestamp) = today AND key_id = ? / IS NULL.
CallsOfDay(rows, today, key_id) ==
    SelectSeq(rows, LAMBDA r : DateOf(r.timestamp) = today /\ SameScope(r, key_id))

\* Variant: each rate is the later call's tokens over the time difference,
\* not the difference of the two calls' tokens.
BurnRates_PerCall(calls) ==
    LET pairs == [j \in 1..(Len(calls) - 1) |->
                    <<calls[j + 1].total_tokens,
                      (calls[j + 1].timestamp - calls[j].timestamp)
                          * MinutesPerTick>>]
    IN  SelectSeq(pairs, LAMBDA q : q[2] > 0)

\* The burn_rates list: for adjacent calls with a positive time difference,
\* <<tokens_diff, time_diff>> (the rate is their quotient, time in minutes).
BurnRates(calls) ==
    LET pairs == [j \in 1..(Len(calls) - 1) |->
                    <<calls[j + 1].total_tokens - calls[j].total_tokens,
                      (calls[j + 1].timestamp - calls[j].timestamp)
                          * MinutesPerTick>>]
    IN  SelectSeq(pairs, LAMBDA q : q[2] > 0)

RECURSIVE SumRates(_)
\* sum(burn_rates), a quotient <<numerator, denominator>> with denominator > 0.
SumRates(rates) ==
    IF rates = <<>> THEN <<0, 1>>
    ELSE LET r == Head(rates)
             t == SumRates(Tail(rates))
         IN  <<(r[1] * t[2]) + (t[1] * r[2]), r[2] * t[2]>>

\* avg_burn_rate = sum(burn_rates) / len(burn_rates) if burn_rates else 0
AvgBurnRate(rates) ==
    IF rates = <<>> THEN <<0, 1>>
    ELSE <<SumRates(rates)[1], SumRates(rates)[2] * Len(rates)>>

\* peak_burn_rate = max(burn_rates) if burn_rates else 0
PeakBurnRate(rates) ==
    IF rates = <<>> THEN <<0, 1>>
    ELSE rates[CHOOSE i \in DOMAIN rates :
                  \A j \in DOMAIN rates :
                      /\ rates[j][1] * rates[i][2] <= rates[i][1] * rates[j][2]
                      /\ (rates[j][1] * rates[i][2] = rates[i][1] * rates[j][2]) => i <= j]

\* INSERT OR REPLACE INTO daily_usage: UNIQUE(date, key_id) deletes the row of
\* the same date and key_id; a NULL key_id conflicts with no row.
InsertOrReplaceDaily(rows, new) ==
    Append(SelectSeq(rows, LAMBDA r :
               ~(r.date = new.date /\ r.key_id # NULL /\ new.key_id # NULL
                 /\ r.key_id = new.key_id)),
           new)

\* update_daily_usage up to the first SELECT (the day's SUM(total_tokens),
\* SUM(cost), COUNT(*), DISTINCT model) and the test of its result: when
\* SUM(total_tokens) is NULL or 0 the method goes straight to conn.commit().
BeginUpdateDailyUsage(p, key_id, self_key_id) ==
    /\ pc[p] = "idle"
    /\ ncalls < MaxCalls
    /\ LET k     == ResolveKey(key_id, self_key_id)
           today == DateOf(LocalNow)
           calls == CallsOfDay(db.api_calls, today, k)
           n     == Len(calls)
           total_tokens == SumSeq([j \in 1..n |-> calls[j].total_tokens])
       IN  /\ pc' = [pc EXCEPT ![p] =
                       IF n = 0 \/ total_tokens = 0 THEN "commit" ELSE "daily_calls"]
           /\ call' = [call EXCEPT ![p] =
                     [NoCall EXCEPT
                        !.op = "update_daily_usage", !.key_id = k,
                        !.date = today, !.total_tokens = total_tokens,
                        !.cost = SumSeq([j \in 1..n |-> calls[j].cost]),
                        !.count = n,
                        !.models = {calls[j].model : j \in 1..n}]]
    /\ ncalls' = ncalls + 1
    /\ UNCHANGED <<db, txn, lock, now, utc_offset>>

\* update_daily_usage called by a client of the tracker.
update_daily_usage(p, key_id, self_key_id) ==
    /\ BeginUpdateDailyUsage(p, key_id, self_key_id)
    /\ UNCHANGED main

\* The second SELECT (total_tokens, timestamp ORDER BY timestamp) and the
\* burn rates computed from it.
daily_calls(p) ==
    /\ pc[p] = "daily_calls"
    /\ call' = [call EXCEPT ![p].burn_rates =
                  BurnRates(OrderByTimestamp(
                      CallsOfDay(db.api_calls, call[p].date, call[p].key_id)))]
    /\ pc' = [pc EXCEPT ![p] = "daily_upsert"]
    /\ UNCHANGED <<db, txn, lock, now, utc_offset, ncalls, main>>

\* INSERT OR REPLACE INTO daily_usage; conn.commit() follows.
daily_upsert(p) ==
    /\ pc[p] = "daily_upsert"
    /\ CanWrite(p)
    /\ txn' = [txn EXCEPT ![p] =
                [db EXCEPT !.daily_usage =
                    InsertOrReplaceDaily(@,
                        [date            |-> call[p].date,
                         key_id          |-> call[p].key_id,
                         total_tokens    |-> call[p].total_tokens,
                         total_cost      |-> call[p].cost,
                         api_calls_count |-> call[p].count,
                         models_used     |-> call[p].models,
                         avg_burn_rate   |-> AvgBurnRate(call[p].burn_rates),
                         peak_burn_rate  |-> PeakBurnRate(call[p].burn_rates)])]]
    /\ lock' = p
    /\ pc' = [pc EXCEPT ![p] = "commit"]
    /\ UNCHANGED <<db, call, now, utc_offset, ncalls, main>>

\* ------------------------------------------------ check_and_create_alerts
\* alerts_to_check.  A token-usage threshold is a fraction of the limit, held
\* here in percent; cost thresholds are dollars, the burn rate tokens/minute.
AlertsToCheck ==
    << [alert_type |-> "token_usage_50",    kind |-> "token_usage",    threshold |-> 50],
       [alert_type |-> "token_usage_75",    kind |-> "token_usage",    threshold |-> 75],
       [alert_type |-> "token_usage_90",    kind |-> "token_usage",    threshold |-> 90],
       [alert_type |-> "cost_threshold_10", kind |-> "cost_threshold", threshold |-> 10],
       [alert_type |-> "cost_threshold_50", kind |-> "cost_threshold", threshold |-> 50],
       [alert_type |-> "high_burn_rate",    kind |-> "burn_rate",      threshold |-> 500] >>

\* Variant: the comparisons are strict (> where the code has >=).
ShouldTrigger_Strict(a, usage) ==
    CASE a.kind = "token_usage" ->
            IF usage.token_limit > 0
            THEN usage.tokens_used * 100 > a.threshold * usage.token_limit
            ELSE 0 > a.threshold
      [] a.kind = "cost_threshold" -> usage.total_cost > a.threshold
      [] a.kind = "burn_rate" -> usage.burn_rate > a.threshold

\* should_trigger of one entry: usage_percentage >= threshold with
\* usage_percentage = tokens_used / token_limit if token_limit > 0 else 0;
\* total_cost >= threshold; burn_rate >= threshold.
ShouldTrigger(a, usage) ==
    CASE a.kind = "token_usage" ->
            IF usage.token_limit > 0
            THEN usage.tokens_used * 100 >= a.threshold * usage.token_limit
            ELSE 0 >= a.threshold
      [] a.kind = "cost_threshold" -> usage.total_cost >= a.threshold
      [] a.kind = "burn_rate" -> usage.burn_rate >= a.threshold

\* current_value of one entry, as <<numerator, denominator>>.
CurrentValue(a, usage) ==
    CASE a.kind = "token_usage" ->
            IF usage.token_limit > 0
            THEN <<usage.tokens_used, usage.token_limit>> ELSE <<0, 1>>
      [] a.kind = "cost_threshold" -> <<usage.total_cost, 1>>
      [] a.kind = "burn_rate" -> <<usage.burn_rate, 1>>

\* The first entry at or after position i that should trigger; past the end
\* of the list when there is none.
NextTriggered(i, usage) ==
    LET hits == {j \in i..Len(AlertsToCheck) : ShouldTrigger(AlertsToCheck[j], usage)}
    IN  IF hits = {} THEN Len(AlertsToCheck) + 1
        ELSE CHOOSE j \in hits : \A h \in hits : j <= h

\* SELECT id FROM usage_alerts WHERE alert_type = ? AND DATE(triggered_at) = ?
AlertExists(rows, alert_type, today) ==
    \E j \in DOMAIN rows :
        rows[j].alert_type = alert_type /\ DateOf(rows[j].triggered_at) = today

\* INSERT INTO usage_alerts (alert_type, threshold_value, current_value, message):
\* key_id stays NULL, triggered_at is CURRENT_TIMESTAMP (UTC), is_active 1.
NewAlert(a, usage, triggered_at) ==
    [key_id          |-> NULL,
     alert_type      |-> a.alert_type,
     threshold_value |-> a.threshold,
     current_value   |-> CurrentValue(a, usage),
     is_active       |-> 1,
     triggered_at    |-> triggered_at]

\* check_and_create_alerts is called with current_usage, on a tracker whose
\* self.key_id is self_key_id: the credential the usage was evaluated for.
\* The method reads no key_id; call[p].key_id only records the tracker's.
BeginCheckAndCreateAlerts(p, usage, self_key_id) ==
    /\ pc[p] = "idle"
    /\ ncalls < MaxCalls
    /\ call' = [call EXCEPT ![p] =
                 [NoCall EXCEPT !.op = "check_and_create_alerts", !.usage = usage,
                                !.key_id = self_key_id,
                                !.i = NextTriggered(1, usage)]]
    /\ pc' = [pc EXCEPT ![p] =
                IF NextTriggered(1, usage) > Len(AlertsToCheck)
                THEN "commit" ELSE "alert_select"]
    /\ ncalls' = ncalls + 1
    /\ UNCHANGED <<db, txn, lock, now, utc_offset>>

\* check_and_create_alerts called by a client of the tracker.
check_and_create_alerts(p, usage, self_key_id) ==
    /\ BeginCheckAndCreateAlerts(p, usage, self_key_id)
    /\ UNCHANGED main

\* One triggered entry's existence check: today = datetime.now()'s date, then
\* the SELECT.  An entry found is skipped; one not found is inserted next.
alert_select(p) ==
    /\ pc[p] = "alert_select"
    /\ LET a     == AlertsToCheck[call[p].i]
           today == DateOf(LocalNow)
           nxt   == NextTriggered(call[p].i + 1, call[p].usage)
       IN  IF AlertExists(View(p).usage_alerts, a.alert_type, today)
           THEN /\ call' = [call EXCEPT ![p].i = nxt]
                /\ pc' = [pc EXCEPT ![p] =
                            IF nxt > Len(AlertsToCheck) THEN "commit"
                            ELSE "alert_select"]
           ELSE /\ pc' = [pc EXCEPT ![p] = "alert_insert"]
                /\ UNCHANGED call
    /\ UNCHANGED <<db, txn, lock, now, utc_offset, ncalls, main>>

\* The INSERT of the entry that was not found.
alert_insert(p) ==
    /\ pc[p] = "alert_insert"
    /\ lock = p \/ CanWrite(p)
    /\ LET a   == AlertsToCheck[call[p].i]
           nxt == NextTriggered(call[p].i + 1, call[p].usage)
       IN  /\ txn' = [txn EXCEPT ![p] =
                        [View(p) EXCEPT !.usage_alerts =
                            Append(@, NewAlert(a, call[p].usage, now))]]
           /\ call' = [call EXCEPT ![p].i = nxt]
           /\ pc' = [pc EXCEPT ![p] =
                       IF nxt > Len(AlertsToCheck) THEN "commit" ELSE "alert_select"]
    /\ lock' = p
    /\ UNCHANGED <<db, now, utc_offset, ncalls, main>>

\* ------------------------------------------------------ the monitor loop
\* row[i] of a row tuple that SELECT * returned from a table of these columns.
RowValue(row, columns, i) == row[columns[i + 1]]

\* one_hour_ago = datetime.now() - timedelta(hours=1), in ticks of the clock:
\* an hour is shorter than a tick, so the trailing hour is the current tick.
OneHourAgo(t) == t - (60 \div MinutesPerTick)

RECURSIVE Reverse(_)
Reverse(s) == IF s = <<>> THEN <<>> ELSE Append(Reverse(Tail(s)), Head(s))

\* SELECT * FROM api_calls WHERE timestamp >= one_hour_ago ORDER BY timestamp DESC
RecentCalls(rows, t) ==
    Reverse(OrderByTimestamp(SelectSeq(rows, LAMBDA r : r.timestamp >= OneHourAgo(t))))

\* SELECT * FROM usage_sessions WHERE is_active = 1 ... LIMIT 1 returns a row.
HasActiveSession(rows) == \E i \in DOMAIN rows : rows[i].is_active = 1

\* calculate_hourly_burn_rate: sum(call[5] for call in recent_calls) / 60 if
\* the sum is positive, else 0; a quotient <<numerator, denominator>>.
\* `columns` is the order of the values in the row tuples of recent_calls.
calculate_hourly_burn_rate(recent_calls, columns) ==
    LET n == Len(recent_calls)
        total_tokens ==
            SumSeq([j \in 1..n |-> RowValue(recent_calls[j], columns, 5)])
    IN  IF n = 0 THEN <<0, 1>>
        ELSE IF total_tokens > 0 THEN <<total_tokens, 60>> ELSE <<0, 1>>

\* ---------------------------------------------------- get_next_reset_time
\* The calendar of datetime: tick 0 of the clock is 00:00 on 1 January of
\* BaseYear; a datetime is its wall-clock reading in ticks, whether it is
\* aware (has a tzinfo) and the UTC offset of its tzinfo in ticks.
IsLeap(year) == (year % 4 = 0 /\ year % 100 # 0) \/ year % 400 = 0

DaysInMonth(year, month) ==
    IF month = 2 THEN (IF IsLeap(year) THEN 29 ELSE 28)
    ELSE IF month \in {4, 6, 9, 11} THEN 30 ELSE 31

RECURSIVE YMDFrom(_, _, _)
\* <<year, month, day>> of the day that lies n days after the 1st of month.
YMDFrom(year, month, n) ==
    IF n < DaysInMonth(year, month) THEN <<year, month, n + 1>>
    ELSE IF month = 12
         THEN YMDFrom(year + 1, 1, n - DaysInMonth(year, month))
         ELSE YMDFrom(year, month + 1, n - DaysInMonth(year, month))

\* .year, .month, .day of a wall-clock reading.
YMD(wall) == YMDFrom(BaseYear, 1, DateOf(wall))

RECURSIVE DaysBefore(_, _)
\* The days from 1 January of BaseYear to the 1st of month of year.
DaysBefore(year, month) ==
    IF year = BaseYear /\ month = 1 THEN 0
    ELSE IF month = 1 THEN DaysBefore(year - 1, 12) + DaysInMonth(year - 1, 12)
    ELSE DaysBefore(year, month - 1) + DaysInMonth(year, month - 1)

\* datetime(year, month, 1): naive, at 00:00:00.
FirstOfMonth(year, month) ==
    [wall |-> DaysBefore(year, month) * DayLen, aware |-> FALSE, tzinfo |-> 0]

\* The zones pytz knows, with their UTC offsets in ticks (zones without
\* daylight saving time: UTC, one a tick east of it, one a tick west).
KnownZones == [UTC |-> 0, East |-> 1, West |-> 0 - 1]

UnknownTimeZoneError == "UnknownTimeZoneError"

\* A zone pytz knows that has daylight saving time: UTC offset 0 in winter
\* and one tick more from the end of March to the end of October.
SummerZone == "Europe/Summer"

\* Daylight saving time is in force in a zone with it at the instant whose
\* standard-time reading is `standard`.
InSummer(standard) ==
    LET ymd == YMD(standard)
    IN  \/ ymd[2] \in 4..9
        \/ ymd[2] = 3 /\ ymd[3] >= 29
        \/ ymd[2] = 10 /\ ymd[3] < 25

\* pytz.timezone(zone): the zone (its standard UTC offset and whether it has
\* daylight saving time), or UnknownTimeZoneError raised.
pytz_timezone(zone) ==
    IF zone \in DOMAIN KnownZones
    THEN [utcoffset |-> KnownZones[zone], dst |-> FALSE, error |-> NULL]
    ELSE IF zone = SummerZone
    THEN [utcoffset |-> 0, dst |-> TRUE, error |-> NULL]
    ELSE [utcoffset |-> 0, dst |-> FALSE, error |-> UnknownTimeZoneError]

\* tz.utcoffset at the instant utc.
UtcOffsetAt(tz, utc) ==
    IF tz.dst /\ InSummer(utc + tz.utcoffset) THEN tz.utcoffset + 1 ELSE tz.utcoffset

\* tz.localize(naive) and aware.astimezone(tz).
Localize(tz, datetime) ==
    [wall |-> datetime.wall, aware |-> TRUE,
     tzinfo |-> UtcOffsetAt(tz, datetime.wall - tz.utcoffset)]
AsTimezone(datetime, utcoffset) ==
    [wall |-> (datetime.wall - datetime.tzinfo) + utcoffset, aware |-> TRUE,
     tzinfo |-> utcoffset]

\* aware.astimezone(tz) for a pytz zone: the zone's offset at that instant.
AsZone(datetime, tz) ==
    AsTimezone(datetime, UtcOffsetAt(tz, datetime.wall - datetime.tzinfo))

\* Variant: an unknown zone is not caught.
TargetTz_NoFallback(timezone_str) == pytz_timezone(timezone_str)

\* target_tz: pytz.timezone(timezone_str), UTC when that raises
\* UnknownTimeZoneError.
TargetTz(timezone_str) ==
    IF pytz_timezone(timezone_str).error = UnknownTimeZoneError
    THEN pytz_timezone("UTC")
    ELSE pytz_timezone(timezone_str)

\* Variant: December is followed by January of the same year.
NextMonth_SameYear(year, month) ==
    IF month = 12 THEN <<year, 1>> ELSE <<year, month + 1>>

\* The <<year, month>> of next_reset: (year + 1, 1) after December, else
\* (year, month + 1).
NextMonth(year, month) ==
    IF month = 12 THEN <<year + 1, 1>> ELSE <<year, month + 1>>

\* get_next_reset_time(current_time, None, timezone_str): the datetime
\* returned (error NULL), or the exception that leaves the function.
get_next_reset_time(current_time, timezone_str) ==
    LET target_tz == TargetTz(timezone_str)
    IN  IF target_tz.error # NULL
        THEN [wall |-> NoTime, aware |-> FALSE, tzinfo |-> 0, error |-> target_tz.error]
        ELSE
        LET target_time == IF current_time.aware
                           THEN AsZone(current_time, target_tz)
                           ELSE Localize(target_tz, current_time)
            ymd         == YMD(target_time.wall)
            nm          == NextMonth(ymd[1], ymd[2])
            next_reset  == Localize(target_tz, FirstOfMonth(nm[1], nm[2]))
            returned    == IF current_time.aware
                              /\ (target_tz.dst
                                  \/ current_time.tzinfo # target_tz.utcoffset)
                           THEN AsTimezone(next_reset, current_time.tzinfo)
                           ELSE next_reset
        IN  [wall |-> returned.wall, aware |-> returned.aware,
             tzinfo |-> returned.tzinfo, error |-> NULL]

\* A call of get_next_reset_time at the current instant, with a current_time
\* that is naive (the host's wall clock) or aware with UTC offset tzinfo.
next_reset_call(p, aware, tzinfo, timezone_str) ==
    /\ pc[p] = "idle"
    /\ LET current_time == IF aware
                           THEN [wall |-> now + tzinfo, aware |-> TRUE, tzinfo |-> tzinfo]
                           ELSE [wall |-> LocalNow, aware |-> FALSE, tzinfo |-> 0]
       IN  call' = [call EXCEPT ![p] =
                     [NoCall EXCEPT
                        !.op = "get_next_reset_time",
                        !.current_time = current_time,
                        !.timezone = timezone_str,
                        !.reset_time = get_next_reset_time(current_time, timezone_str)]]
    /\ pc' = [pc EXCEPT ![p] = "reset_time"]
    /\ UNCHANGED <<db, txn, lock, now, utc_offset, ncalls, main>>

\* The caller has used the reset time.
next_reset_return(p) ==
    /\ pc[p] = "reset_time"
    /\ pc' = [pc EXCEPT ![p] = "idle"]
    /\ call' = [call EXCEPT ![p] = NoCall]
    /\ UNCHANGED <<db, txn, lock, now, utc_offset, ncalls, main>>

\* ------------------------------------------------- predicted end of tokens
\* An instant as minutes since tick 0 of the UTC clock.
MinutesOf(datetime) == (datetime.wall - datetime.tzinfo) * MinutesPerTick

\* Variant: the prediction extrapolates whenever the burn rate is positive.
PredictedEndTime_AnyTokens(current_time, tokens_left, burn_rate, reset_time) ==
    IF burn_rate[1] > 0
    THEN <<(MinutesOf(current_time) * burn_rate[1]) + (tokens_left * burn_rate[2]),
           burn_rate[1]>>
    ELSE <<MinutesOf(reset_time), 1>>

\* predicted_end_time: current_time + timedelta(minutes=tokens_left / burn_rate)
\* if burn_rate > 0 and tokens_left > 0, else reset_time; an instant in
\* minutes, as a quotient <<numerator, denominator>> (burn_rate is one too).
PredictedEndTime(current_time, tokens_left, burn_rate, reset_time) ==
    IF burn_rate[1] > 0 /\ tokens_left > 0
    THEN <<(MinutesOf(current_time) * burn_rate[1]) + (tokens_left * burn_rate[2]),
           burn_rate[1]>>
    ELSE <<MinutesOf(reset_time), 1>>

\* The predicted-end calculation of a pass whose reset_time is computed, for
\* the pass's tokens_left and burn_rate.
predicted_end(p, tokens_left, burn_rate) ==
    /\ pc[p] = "reset_time"
    /\ call[p].reset_time.error = NULL
    /\ call' = [call EXCEPT
                  ![p].tokens_left = tokens_left,
                  ![p].burn_rate = burn_rate,
                  ![p].predicted_end_time =
                      PredictedEndTime(call[p].current_time, tokens_left, burn_rate,
                                       call[p].reset_time)]
    /\ pc' = [pc EXCEPT ![p] = "predicted"]
    /\ UNCHANGED <<db, txn, lock, now, utc_offset, ncalls, main>>

\* The rest of the pass (the rendering and the sleep) after the prediction.
predicted_return(p) ==
    /\ pc[p] = "predicted"
    /\ pc' = [pc EXCEPT ![p] = "idle"]
    /\ call' = [call EXCEPT ![p] = NoCall]
    /\ UNCHANGED <<db, txn, lock, now, utc_offset, ncalls, main>>

\* ------------------------------------------------------- budget settings
\* month_year = datetime.now().strftime("%Y-%m"), as <<year, month>>.
MonthYear(t) == <<YMD(t)[1], YMD(t)[2]>>

\* INSERT OR REPLACE INTO budget_settings: UNIQUE(month_year, key_id) deletes
\* the row of the same month_year and key_id; a NULL key_id conflicts with no
\* row.
InsertOrReplaceBudget(rows, new) ==
    Append(SelectSeq(rows, LAMBDA r :
               ~(r.month_year = new.month_year /\ r.key_id # NULL
                 /\ new.key_id # NULL /\ r.key_id = new.key_id)),
           new)

\* main with --budget (a truthy args.budget), on a tracker constructed with
\* key_id self_key_id: one INSERT OR REPLACE that names month_year,
\* budget_limit, token_limit and alert_thresholds (key_id is left NULL),
\* committed.
set_budget(p, budget, token_limit, self_key_id) ==
    /\ pc[p] = "idle"
    /\ ncalls < MaxCalls
    /\ CanWrite(p)
    /\ budget # 0
    /\ db' = [db EXCEPT !.budget_settings =
                InsertOrReplaceBudget(@,
                    [month_year       |-> MonthYear(LocalNow),
                     key_id           |-> NULL,
                     budget_limit     |-> budget,
                     token_limit      |-> token_limit,
                     alert_thresholds |-> <<50, 75, 90>>])]
    /\ ncalls' = ncalls + 1
    /\ UNCHANGED <<txn, lock, pc, call, now, utc_offset, main>>

\* ------------------------------------------------- main: the monitor loop
\* The columns SQLite declares INTEGER or REAL, and those that hold the
\* text of a timestamp; the others hold other text.
NumericColumns ==
    {"id", "total_tokens", "prompt_tokens", "completion_tokens", "total_cost",
     "cost", "is_active"}
TimeColumns == {"start_time", "end_time", "timestamp", "created_at"}

\* The rows SELECT * FROM usage_sessions WHERE is_active = 1
\* ORDER BY start_time DESC LIMIT 1 may return: an active row of the latest
\* start_time (SQL does not say which one of several).
LatestActive(rows) ==
    {i \in DOMAIN rows :
        /\ rows[i].is_active = 1
        /\ \A j \in DOMAIN rows :
              rows[j].is_active = 1 => rows[j].start_time <= rows[i].start_time}

\* main leaves the loop with an exception: the handlers of the try statement
\* around the loop end the process.
Exits(p, raised, exit_status) ==
    main' = [main EXCEPT ![p].at = "exited", ![p].raised = raised,
                         ![p].exit_status = exit_status]

\* The top of a pass: data = tracker.get_local_usage_data() and the test
\* of active_session.  Without an active session the pass ends: in demo mode
\* after time.sleep(3), otherwise with tracker.create_session().
loop_read(p) ==
    /\ pc[p] = "idle"
    /\ main[p].at = "top"
    /\ ncalls < MaxCalls
    /\ IF HasActiveSession(db.usage_sessions)
       THEN \E i \in LatestActive(db.usage_sessions) :
               main' = [main EXCEPT
                          ![p].at = "extract",
                          ![p].active_session = <<db.usage_sessions[i]>>,
                          ![p].recent_calls = RecentCalls(db.api_calls, LocalNow)]
       ELSE IF main[p].demo
       THEN UNCHANGED main
       ELSE main' = [main EXCEPT ![p].at = "create"]
    /\ ncalls' = ncalls + 1
    /\ UNCHANGED <<db, txn, lock, pc, call, now, utc_offset>>

\* Variant: the pass that found no active session retries without creating one.
loop_create_NoSession(p) ==
    /\ main[p].at = "create"
    /\ pc[p] = "idle"
    /\ main' = [main EXCEPT ![p].at = "top"]
    /\ UNCHANGED <<db, txn, lock, pc, call, now, utc_offset, ncalls>>

\* tracker.create_session() of a pass that found no active session, then
\* `continue`.
loop_create(p) ==
    /\ main[p].at = "create"
    /\ BeginCreateSession(p, NULL, NULL, main[p].key_id, "create_session", "idle")
    /\ main' = [main EXCEPT ![p].at = "top"]

\* "Extract data from active session" and the time calculations:
\* tokens_used = active_session[4], total_cost = active_session[7],
\* usage_percentage and tokens_left (arithmetic on tokens_used: TypeError when
\* that value is None or text), start_time_str = active_session[2] and, when
\* it is truthy, datetime.fromisoformat(start_time_str) (ValueError for text
\* that is no timestamp, TypeError for a number), current_time =
\* datetime.now().  An exception leaves the loop: `except Exception` prints
\* it and re-raises, and the process ends with status 1.
loop_extract(p) ==
    /\ pc[p] = "idle"
    /\ main[p].at = "extract"
    /\ LET columns       == db.columns.usage_sessions
           row           == main[p].active_session[1]
           tokens_column == columns[4 + 1]
           start_column  == columns[2 + 1]
           start_value   == RowValue(row, columns, 2)
       IN  IF tokens_column \notin NumericColumns
           THEN Exits(p, "TypeError", 1)
           ELSE IF start_column \in NumericColumns
           THEN IF start_value = 0
                THEN main' = [main EXCEPT
                        ![p].at = "burn_rate",
                        ![p].tokens_used = RowValue(row, columns, 4),
                        ![p].total_cost = RowValue(row, columns, 7),
                        ![p].elapsed_ticks = 0,
                        ![p].current_time =
                            [wall |-> LocalNow, aware |-> FALSE, tzinfo |-> 0]]
                ELSE Exits(p, "TypeError", 1)
           ELSE IF start_column \in TimeColumns
           THEN main' = [main EXCEPT
                   ![p].at = "burn_rate",
                   ![p].tokens_used = RowValue(row, columns, 4),
                   ![p].total_cost = RowValue(row, columns, 7),
                   ![p].elapsed_ticks =
                       IF start_value = NoTime THEN 0 ELSE LocalNow - start_value,
                   ![p].current_time =
                       [wall |-> LocalNow, aware |-> FALSE, tzinfo |-> 0]]
           ELSE IF Truthy(start_value)
           THEN Exits(p, "ValueError", 1)
           ELSE main' = [main EXCEPT
                   ![p].at = "burn_rate",
                   ![p].tokens_used = RowValue(row, columns, 4),
                   ![p].total_cost = RowValue(row, columns, 7),
                   ![p].elapsed_ticks = 0,
                   ![p].current_time =
                       [wall |-> LocalNow, aware |-> FALSE, tzinfo |-> 0]]
    /\ UNCHANGED <<db, txn, lock, pc, call, now, utc_offset, ncalls>>

\* burn_rate = calculate_hourly_burn_rate(recent_calls, current_time)
loop_burn_rate(p) ==
    /\ pc[p] = "idle"
    /\ main[p].at = "burn_rate"
    /\ main' = [main EXCEPT
                  ![p].at = "daily",
                  ![p].burn_rate =
                      calculate_hourly_burn_rate(main[p].recent_calls,
                                                 db.columns.api_calls)]
    /\ UNCHANGED <<db, txn, lock, pc, call, now, utc_offset, ncalls>>

\* `if int(elapsed_minutes) % 10 == 0: tracker.update_daily_usage()`, in a
\* pass whose elapsed minute is a multiple of ten (the clock's tick is
\* longer than a minute: every tick has such minutes and others).
loop_daily(p) ==
    /\ main[p].at = "daily"
    /\ BeginUpdateDailyUsage(p, NULL, main[p].key_id)
    /\ main' = [main EXCEPT ![p].at = "alerts"]

\* The same statement in a pass whose elapsed minute is no multiple of ten.
loop_daily_skip(p) ==
    /\ pc[p] = "idle"
    /\ main[p].at = "daily"
    /\ main' = [main EXCEPT ![p].at = "alerts"]
    /\ UNCHANGED <<db, txn, lock, pc, call, now, utc_offset, ncalls>>

\* tracker.check_and_create_alerts(usage_data); the burn rate, a quotient,
\* is handed over in whole tokens per minute (the thresholds are whole).
loop_alerts(p) ==
    /\ main[p].at = "alerts"
    /\ BeginCheckAndCreateAlerts(p,
          [tokens_used |-> main[p].tokens_used,
           token_limit |-> main[p].token_limit,
           total_cost  |-> main[p].total_cost,
           burn_rate   |-> main[p].burn_rate[1] \div main[p].burn_rate[2]],
          main[p].key_id)
    /\ main' = [main EXCEPT ![p].at = "predict"]

\* The reset time (current_time made aware by replace(tzinfo=timezone.utc)),
\* the predicted end and the assignment of the colour codes.
loop_predict(p) ==
    /\ pc[p] = "idle"
    /\ main[p].at = "predict"
    /\ LET current_time == [main[p].current_time EXCEPT !.aware = TRUE, !.tzinfo = 0]
           reset_time   == get_next_reset_time(current_time, main[p].timezone)
       IN  main' = [main EXCEPT
                      ![p].at = "render",
                      ![p].current_time = current_time,
                      ![p].reset_time = reset_time,
                      ![p].predicted_end_time =
                          PredictedEndTime(current_time,
                                           main[p].token_limit - main[p].tokens_used,
                                           main[p].burn_rate, reset_time),
                      ![p].colors = TRUE]
    /\ UNCHANGED <<db, txn, lock, pc, call, now, utc_offset, ncalls>>

\* The dashboard frame (its SELECT of the recent alerts included) and
\* time.sleep(3); the next pass follows.
loop_render(p) ==
    /\ pc[p] = "idle"
    /\ main[p].at = "render"
    /\ main' = [main EXCEPT ![p].at = "top"]
    /\ UNCHANGED <<db, txn, lock, pc, call, now, utc_offset, ncalls>>

\* Ctrl+C while the loop runs, at any statement of the pass or of a tracker
\* method it called (whose connection is dropped with its transaction).
\* `except KeyboardInterrupt` prints with the colour codes `cyan` and
\* `reset` and calls sys.exit(0); before the first assignment of the colour
\* codes the print raises UnboundLocalError and the process ends with
\* status 1.
keyboard_interrupt(p) ==
    /\ main[p].at # "exited"
    /\ txn' = [txn EXCEPT ![p] = NoTxn]
    /\ lock' = IF lock = p THEN NoProc ELSE lock
    /\ pc' = [pc EXCEPT ![p] = "idle"]
    /\ call' = [call EXCEPT ![p] = NoCall]
    /\ Exits(p, "KeyboardInterrupt", IF main[p].colors THEN 0 ELSE 1)
    /\ UNCHANGED <<db, now, utc_offset, ncalls>>

\* ---------------------------------------------------------- init_database
\* CREATE TABLE IF NOT EXISTS: a table that does not exist is created with
\* the declared columns, an existing one is left as it is.
CreateTablesIfNotExist(database) ==
    [database EXCEPT !.columns =
        [t \in Tables |-> IF database.columns[t] = <<>>
                          THEN CreateTableColumns[t] ELSE database.columns[t]]]

HasColumn(database, t, c) ==
    \E i \in DOMAIN database.columns[t] : database.columns[t][i] = c

\* Variant: the table is created anew with the declared columns.
AddKeyIdColumn_Recreate(database, t) ==
    IF HasColumn(database, t, "key_id") THEN database
    ELSE [database EXCEPT ![t] = <<>>, !.columns[t] = CreateTableColumns[t]]

\* One block of _migrate_schema: PRAGMA table_info(t), and when no column
\* is named key_id, ALTER TABLE t ADD COLUMN key_id TEXT, which appends the
\* column and gives every existing row a NULL in it.
AddKeyIdColumn(database, t) ==
    IF HasColumn(database, t, "key_id") THEN database
    ELSE [database EXCEPT
            ![t] = [j \in DOMAIN @ |-> @[j] @@ [key_id |-> NULL]],
            !.columns[t] = Append(@, "key_id")]

\* _migrate_schema: the five blocks, in the order of the code.
MigrateSchema(database) ==
    AddKeyIdColumn(
      AddKeyIdColumn(
        AddKeyIdColumn(
          AddKeyIdColumn(
            AddKeyIdColumn(database, "usage_sessions"),
            "api_calls"),
          "daily_usage"),
        "usage_alerts"),
      "budget_settings")

\* init_database: the CREATE TABLE IF NOT EXISTS statements, _migrate_schema
\* and conn.commit(), run by every construction of a tracker.
init_database(p) ==
    /\ pc[p] = "idle"
    /\ ncalls < MaxCalls
    /\ CanWrite(p)
    /\ db' = MigrateSchema(CreateTablesIfNotExist(db))
    /\ ncalls' = ncalls + 1
    /\ UNCHANGED <<txn, lock, pc, call, now, utc_offset, main>>

\* ------------------------------------------------------------- the clock
Tick(limit) ==
    /\ now < StartTime + limit
    /\ now' = now + 1
    /\ UNCHANGED <<db, txn, lock, pc, call, utc_offset, ncalls, main>>

\* ------------------------------------------------------------- the inputs
\* The key_id add_key hands out at the start of the run.
K1 == NewKeyId(StartTime)
K2 == NewKeyId(StartTime + 1)

Models      == {"gpt-4", "gpt-3.5-turbo"}
SessionArgs == {NULL, "s1", "s2"}          \* session_id arguments (NULL: not given)
KeyArgs     == {NULL, "", K1}            \* key_id arguments (NULL: not given)
TrackerKeys == {NULL, K1}                \* key_id a tracker is constructed with
Offsets     == {0 - 1, 0, 1}               \* the host's UTC offset, in ticks
\* (model, prompt_tokens, completion_tokens, cost) of the calls that are logged
UsageArgs ==
    {[model |-> "gpt-4", prompt_tokens |-> 2, completion_tokens |-> 1, cost |-> 3],
     [model |-> "gpt-3.5-turbo", prompt_tokens |-> 0, completion_tokens |-> 0,
      cost |-> 0]}
AlertUsages ==
    {[tokens_used |-> 60, token_limit |-> 100, total_cost |-> 0, burn_rate |-> 0],
     [tokens_used |-> 10, token_limit |-> 100, total_cost |-> 10, burn_rate |-> 500]}
KeyNames == {"n1", "n2"}
Secrets  == {"sk-secret1"}

\* --------------------------------------------------------- specifications
\* The processes are idle on the committed database `database`, on a host
\* whose UTC offset is one of `offsets`.
InitWith(offsets, database) ==
    /\ db = database
    /\ txn = [p \in Procs |-> NoTxn]
    /\ lock = NoProc
    /\ pc = [p \in Procs |-> "idle"]
    /\ call = [p \in Procs |-> NoCall]
    /\ now = StartTime
    /\ utc_offset \in offsets
    /\ ncalls = 0
    /\ main = [p \in Procs |-> NoMain]

\* The state after the tracker's construction on a fresh database file.
InitOn(offsets) == InitWith(offsets, EmptyDb)

\* Sessions: any processes call create_session and log_api_call.
InitSessions == InitOn({0})

NextSessions ==
    \/ \E p \in Procs, s \in SessionArgs, k \in KeyArgs, sk \in TrackerKeys :
          create_session_update(p, s, k, sk)
    \/ \E p \in Procs : create_session_insert(p)
    \/ \E p \in Procs, s \in SessionArgs \ {NULL}, u \in UsageArgs :
          log_api_call_insert(p, s, u.model, u.prompt_tokens,
                              u.completion_tokens, u.cost, NULL, NULL)
    \/ \E p \in Procs : log_api_call_update(p)
    \/ \E p \in Procs : Commit(p)
    \/ Tick(MaxTime)

SpecSessions == InitSessions /\ [][NextSessions]_vars

\* The whole tracker: any processes call any of its operations.

Init == InitOn({0})

\* Process 1 runs the monitor (main): demo seeding, the key registry, the
\* daily rollup, the alerts; process 2 is a client that logs its calls
\* (example_integration).
Monitor == 1
Client  == 2

Next ==
    \/ \E p \in Procs, s \in {NULL, "s1"}, sk \in TrackerKeys :
          create_session_update(p, s, NULL, sk)
    \/ \E p \in Procs : create_session_insert(p)
    \/ \E u \in UsageArgs :
          log_api_call_insert(Client, "s1", u.model, u.prompt_tokens,
                              u.completion_tokens, u.cost, NULL, NULL)
    \/ log_api_call_update(Client)
    \/ \E p \in Procs : Commit(p)
    \/ \E sk \in TrackerKeys : create_demo_session(Monitor, sk)
    \/ demo_insert(Monitor)
    \/ demo_select(Monitor)
    \/ demo_update(Monitor)
    \/ \E a \in Secrets, n \in KeyNames : add_key(Monitor, a, n, "")
    \/ \E k \in {NULL, K1}, n \in KeyNames : remove_key(Monitor, k, n)
    \/ \E b \in BOOLEAN : update_key_status(Monitor, K1, b)
    \/ \E sk \in TrackerKeys : update_daily_usage(Monitor, NULL, sk)
    \/ daily_calls(Monitor)
    \/ daily_upsert(Monitor)
    \/ \E u \in AlertUsages : check_and_create_alerts(Monitor, u, NULL)
    \/ alert_select(Monitor)
    \/ alert_insert(Monitor)
    \/ init_database(Monitor)
    \/ Tick(MaxTime)

Spec == Init /\ [][Next]_vars
\* Two client processes each open one session, under their own session id,
\* in the scope of the session rows that are already there (an earlier
\* session s0 of that scope may be open).
SessionOf(p) == IF p = 1 THEN "s1" ELSE "s2"

InitConcurrentCreate == InitOn({0})

NextConcurrentCreate ==
    \/ \E k \in KeyArgs, sk \in TrackerKeys :
          /\ db.usage_sessions = <<>>
          /\ \E p \in Procs : create_session_update(p, "s0", k, sk)
    \/ \E p \in Procs, k \in KeyArgs, sk \in TrackerKeys :
          /\ \A i \in DOMAIN db.usage_sessions :
                /\ db.usage_sessions[i].key_id = ResolveKey(k, sk)
                /\ db.usage_sessions[i].session_id # SessionOf(p)
          /\ create_session_update(p, SessionOf(p), k, sk)
    \/ \E p \in Procs : create_session_insert(p)
    \/ \E p \in Procs : Commit(p)
    \/ Tick(MaxTime)

SpecConcurrentCreate == InitConcurrentCreate /\ [][NextConcurrentCreate]_vars

\* Several processes log calls against the session s1 that create_session
\* opened (and against a session id that names no row).
InitLog ==
    InitWith({0}, [EmptyDb EXCEPT
                     !.usage_sessions = <<NewSession("s1", NULL, StartTime)>>])

NextLog ==
    \/ \E p \in Procs, s \in {"s1", "s2"}, u \in UsageArgs :
          log_api_call_insert(p, s, u.model, u.prompt_tokens,
                              u.completion_tokens, u.cost, NULL, NULL)
    \/ \E p \in Procs : log_api_call_update(p)
    \/ \E p \in Procs : Commit(p)
    \/ Tick(MaxTime)

SpecLog == InitLog /\ [][NextLog]_vars

\* The monitor process evaluates the alerts, call after call, over more
\* than one calendar day, on hosts east of, at and west of UTC.
InitAlerts == InitOn(Offsets)

NextAlerts ==
    \/ \E u \in AlertUsages : check_and_create_alerts(Monitor, u, NULL)
    \/ alert_select(Monitor)
    \/ alert_insert(Monitor)
    \/ Commit(Monitor)
    \/ Tick(DayLen)

SpecAlerts == InitAlerts /\ [][NextAlerts]_vars

\* Two monitor processes evaluate the alerts at the same time, on a host
\* whose clock is UTC (the local date is the UTC date).
InitConcurrentAlerts == InitOn({0})

NextConcurrentAlerts ==
    \/ \E p \in Procs, u \in AlertUsages : check_and_create_alerts(p, u, NULL)
    \/ \E p \in Procs : alert_select(p)
    \/ \E p \in Procs : alert_insert(p)
    \/ \E p \in Procs : Commit(p)
    \/ Tick(MaxTime)

SpecConcurrentAlerts == InitConcurrentAlerts /\ [][NextConcurrentAlerts]_vars

\* Monitors of two credentials, one started with --key-id K1 and one with
\* --key-id K2, evaluate the alerts one call after the other on a UTC host.
InitAlertsByKey == InitOn({0})

NextAlertsByKey ==
    \/ \E p \in Procs, u \in AlertUsages, sk \in {K1, K2} :
          /\ \A q \in Procs : pc[q] = "idle"
          /\ check_and_create_alerts(p, u, sk)
    \/ \E p \in Procs : alert_select(p)
    \/ \E p \in Procs : alert_insert(p)
    \/ \E p \in Procs : Commit(p)
    \/ Tick(MaxTime)

SpecAlertsByKey == InitAlertsByKey /\ [][NextAlertsByKey]_vars

\* One monitor evaluates the alerts on a UTC host for usages on, between and
\* above the thresholds.
ThresholdUsages ==
    AlertUsages \cup
    {[tokens_used |-> 95, token_limit |-> 100, total_cost |-> 50, burn_rate |-> 499],
     [tokens_used |-> 49, token_limit |-> 100, total_cost |-> 9, burn_rate |-> 0]}

InitThresholds == InitOn({0})

NextThresholds ==
    \/ \E u \in ThresholdUsages : check_and_create_alerts(Monitor, u, NULL)
    \/ alert_select(Monitor)
    \/ alert_insert(Monitor)
    \/ Commit(Monitor)
    \/ Tick(MaxTime)

SpecThresholds == InitThresholds /\ [][NextThresholds]_vars

\* The daily rollup: one process logs calls under two credential scopes and
\* rolls the day up, over two calendar days, on a database that may hold an
\* event logged at the first instant of the first day.
RollupKeys == {NULL, K1}

DailySeeds ==
    {<<>>} \cup {<<NewCall("s1", k, StartTime, "gpt-4", 2, 1, 3, 3)>> : k \in RollupKeys}

InitDaily ==
    \E seed \in DailySeeds : InitWith({0}, [EmptyDb EXCEPT !.api_calls = seed])

NextDaily ==
    \/ \E k \in RollupKeys, u \in UsageArgs :
          log_api_call_insert(Monitor, "s1", u.model, u.prompt_tokens,
                              u.completion_tokens, u.cost, k, NULL)
    \/ log_api_call_update(Monitor)
    \/ \E k \in RollupKeys : update_daily_usage(Monitor, k, NULL)
    \/ daily_calls(Monitor)
    \/ daily_upsert(Monitor)
    \/ Commit(Monitor)
    \/ Tick(DayLen)

SpecDaily == InitDaily /\ [][NextDaily]_vars

\* get_next_reset_time is called at every instant of YearSpan calendar
\* years, with naive and with aware current times, for known and unknown
\* timezone names.
ResetClock == StartTime .. ((DaysBefore(BaseYear + YearSpan, 1) * DayLen) - 1)
ZoneArgs   == {"UTC", "East", "West", "Mars/Olympus"}
TzinfoArgs == {0 - 1, 0, 1}

InitReset ==
    /\ db = EmptyDb
    /\ txn = [p \in Procs |-> NoTxn]
    /\ lock = NoProc
    /\ pc = [p \in Procs |-> "idle"]
    /\ call = [p \in Procs |-> NoCall]
    /\ now \in ResetClock
    /\ utc_offset = 0
    /\ ncalls = 0
    /\ main = [p \in Procs |-> NoMain]

NextReset ==
    \/ \E tzinfo \in TzinfoArgs, z \in ZoneArgs :
          next_reset_call(Monitor, TRUE, tzinfo, z)
    \/ \E z \in ZoneArgs : next_reset_call(Monitor, FALSE, 0, z)
    \/ next_reset_return(Monitor)

SpecReset == InitReset /\ [][NextReset]_vars

\* The prediction of a monitor pass: the reset time is computed for the
\* current time (made aware as UTC), then the predicted end for tokens_left
\* below, at and above zero and burn rates of zero and more.
PredictClock   == StartTime .. (StartTime + (2 * DayLen))
TokensLeftArgs == {0 - 5, 0, 1, 1000}
BurnRateArgs   == {<<0, 1>>, <<1, 60>>, <<7, 60>>, <<600, 60>>}

InitPredict ==
    /\ db = EmptyDb
    /\ txn = [p \in Procs |-> NoTxn]
    /\ lock = NoProc
    /\ pc = [p \in Procs |-> "idle"]
    /\ call = [p \in Procs |-> NoCall]
    /\ now \in PredictClock
    /\ utc_offset = 0
    /\ ncalls = 0
    /\ main = [p \in Procs |-> NoMain]

NextPredict ==
    \/ \E z \in ZoneArgs : next_reset_call(Monitor, TRUE, 0, z)
    \/ \E t \in TokensLeftArgs, b \in BurnRateArgs : predicted_end(Monitor, t, b)
    \/ predicted_return(Monitor)

SpecPredict == InitPredict /\ [][NextPredict]_vars

\* The key registry: the monitor adds, removes, enables and disables keys
\* and reads them back, while calls are logged under the registered keys.
RegistrySecrets == {"sk-secret1", "sk-secret2"}
DaysArgs        == {0, 30}

RegisteredKeys == {db.api_keys[j].key_id : j \in DOMAIN db.api_keys}

InitRegistry == InitOn({0})

NextRegistry ==
    \/ \E a \in RegistrySecrets, n \in KeyNames : add_key(Monitor, a, n, "")
    \/ \E k \in {NULL, K1}, n \in KeyNames : remove_key(Monitor, k, n)
    \/ \E b \in BOOLEAN : update_key_status(Monitor, K1, b)
    \/ list_keys(Monitor)
    \/ \E k \in {NULL, K1, K2}, n \in KeyNames : get_key(Monitor, k, n)
    \/ \E k \in {K1, K2}, d \in DaysArgs : get_key_usage_summary(Monitor, k, d)
    \/ method_return(Monitor)
    \/ \E k \in RegisteredKeys :
          log_api_call_insert(Client, "s1", "gpt-4", 2, 1, 3, k, NULL)
    \/ log_api_call_update(Client)
    \/ Commit(Client)
    \/ Tick(MaxTime)

SpecRegistry == InitRegistry /\ [][NextRegistry]_vars

\* Budget-setting runs of the monitor program, one after the other, with and
\* without --key-id, for two budgets and two plans' token limits.
BudgetArgs     == {10, 20}
TokenLimitArgs == {100000, 500000}

InitBudget == InitOn({0})

NextBudget ==
    \/ \E b \in BudgetArgs, l \in TokenLimitArgs, sk \in TrackerKeys :
          set_budget(Monitor, b, l, sk)
    \/ Tick(MaxTime)

SpecBudget == InitBudget /\ [][NextBudget]_vars

\* Schema initialisation on database files of every age: each table is
\* missing, has the columns of before the key_id column was introduced, or
\* has today's columns; usage_sessions and api_calls may hold a row.
WithoutKeyId(row) == [c \in (DOMAIN row) \ {"key_id"} |-> row[c]]
RemoveKeyId(columns) == SelectSeq(columns, LAMBDA c : c # "key_id")

TableAges == {"absent", "legacy", "current"}

\* The database file whose table t has age[t] and, when rows[t] and the
\* table exists, one row.
DatabaseOfAge(age, rows) ==
    LET session == NewSession("s1", NULL, StartTime)
        event   == NewCall("s1", NULL, StartTime, "gpt-4", 2, 1, 3, 3)
        RowOf(t, row) ==
            IF age[t] = "absent" \/ ~rows[t] THEN <<>>
            ELSE IF age[t] = "legacy" THEN <<WithoutKeyId(row)>> ELSE <<row>>
    IN  [api_keys        |-> <<>>,
         usage_sessions  |-> RowOf("usage_sessions", session),
         api_calls       |-> RowOf("api_calls", event),
         daily_usage     |-> <<>>,
         usage_alerts    |-> <<>>,
         budget_settings |-> <<>>,
         columns         |->
            [t \in Tables |->
                IF age[t] = "absent" THEN <<>>
                ELSE IF age[t] = "legacy" THEN RemoveKeyId(CreateTableColumns[t])
                ELSE CreateTableColumns[t]]]

InitMigrate ==
    \E age \in [Tables -> TableAges],
       rows \in [{"usage_sessions", "api_calls"} -> BOOLEAN] :
        /\ age["api_keys"] # "legacy"
        /\ \A t \in DOMAIN rows : age[t] = "absent" => ~rows[t]
        /\ InitWith({0}, DatabaseOfAge(age, rows))

NextMigrate == init_database(Monitor)

SpecMigrate == InitMigrate /\ [][NextMigrate]_vars

\* The monitor program's loop, started on a new database file, on one that
\* holds an active session, or on an older file that init_database has
\* migrated (and that holds an active session), in live or demo mode, while
\* a client logs calls against the session s1.
LegacyAges ==
    [t \in Tables |-> IF t \in {"usage_sessions", "api_calls"} THEN "legacy"
                      ELSE "absent"]

MigratedDb ==
    MigrateSchema(CreateTablesIfNotExist(
        DatabaseOfAge(LegacyAges, [usage_sessions |-> TRUE, api_calls |-> FALSE])))

MonitorDatabases ==
    {EmptyDb,
     [EmptyDb EXCEPT !.usage_sessions = <<NewSession("s1", NULL, StartTime)>>],
     MigratedDb}
MonitorLimits == {4, 100000}
MonitorZones  == {"UTC", "East"}

InitMonitor ==
    /\ db \in MonitorDatabases
    /\ txn = [p \in Procs |-> NoTxn]
    /\ lock = NoProc
    /\ pc = [p \in Procs |-> "idle"]
    /\ call = [p \in Procs |-> NoCall]
    /\ now = StartTime
    /\ utc_offset = 0
    /\ ncalls = 0
    /\ \E demo \in BOOLEAN, limit \in MonitorLimits, tz \in MonitorZones :
          /\ demo => HasActiveSession(db.usage_sessions)
          /\ main = [p \in Procs |->
                       IF p = Monitor
                       THEN [NoMain EXCEPT !.demo = demo, !.token_limit = limit,
                                           !.timezone = tz]
                       ELSE NoMain]

NextMonitor ==
    \/ loop_read(Monitor)
    \/ loop_create(Monitor)
    \/ create_session_insert(Monitor)
    \/ loop_extract(Monitor)
    \/ loop_burn_rate(Monitor)
    \/ loop_daily(Monitor)
    \/ loop_daily_skip(Monitor)
    \/ daily_calls(Monitor)
    \/ daily_upsert(Monitor)
    \/ loop_alerts(Monitor)
    \/ alert_select(Monitor)
    \/ alert_insert(Monitor)
    \/ loop_predict(Monitor)
    \/ loop_render(Monitor)
    \/ keyboard_interrupt(Monitor)
    \/ \E u \in UsageArgs :
          log_api_call_insert(Client, "s1", u.model, u.prompt_tokens,
                              u.completion_tokens, u.cost, NULL, NULL)
    \/ log_api_call_update(Client)
    \/ \E p \in Procs : Commit(p)
    \/ Tick(MaxTime)

SpecMonitor == InitMonitor /\ [][NextMonitor]_vars

\* Comparison of keys: two keys were registered on the day before, calls are
\* logged under the registered keys or under no key, a key is removed, and the
\* monitor compares the keys over a window of 0 or 30 days.
Ka == NewKeyId(StartTime - 2)
Kb == NewKeyId(StartTime - 1)

RegisteredRow(t, key_name, api_key) ==
    [key_id          |-> NewKeyId(t),
     key_name        |-> key_name,
     key_description |-> "",
     api_key_hash    |-> hash_api_key(api_key),
     is_active       |-> 1,
     created_at      |-> t]

TwoKeysDb ==
    [EmptyDb EXCEPT !.api_keys = <<RegisteredRow(StartTime - 2, "n1", "sk-secret1"),
                                   RegisteredRow(StartTime - 1, "n2", "sk-secret2")>>]

InitCompare == InitWith({0}, TwoKeysDb)

NextCompare ==
    \/ \E k \in RegisteredKeys \cup {NULL}, u \in UsageArgs :
          log_api_call_insert(Client, "s1", u.model, u.prompt_tokens,
                              u.completion_tokens, u.cost, k, NULL)
    \/ log_api_call_update(Client)
    \/ Commit(Client)
    \/ \E k \in {Ka, Kb} : remove_key(Monitor, k, NULL)
    \/ \E d \in DaysArgs : compare_keys(Monitor, d)
    \/ method_return(Monitor)
    \/ Tick(DayLen)

SpecCompare == InitCompare /\ [][NextCompare]_vars

\* The monitor started with --key-id K1 on a new file, on a migrated older
\* file and on one that holds an active session of K1, while a client of
\* another key, K2, opens its session s2 and logs calls on it.
MigratedEmptyDb == [MigratedDb EXCEPT !.usage_sessions = <<>>]

\* The older file held the session s1 and one call of 2 + 1 tokens logged on
\* it; both are K1's.
MigratedK1Db ==
    LET migrated == MigrateSchema(CreateTablesIfNotExist(
                        DatabaseOfAge(LegacyAges, [usage_sessions |-> TRUE,
                                                   api_calls |-> TRUE])))
    IN  [migrated EXCEPT
           !.usage_sessions = <<[@[1] EXCEPT !.key_id = K1, !.total_tokens = 3,
                                             !.prompt_tokens = 2,
                                             !.completion_tokens = 1,
                                             !.total_cost = 3]>>,
           !.api_calls = <<[@[1] EXCEPT !.key_id = K1]>>]

ScopedDatabases == {EmptyDb, MigratedEmptyDb, MigratedK1Db}

InitScoped ==
    /\ db \in ScopedDatabases
    /\ txn = [p \in Procs |-> NoTxn]
    /\ lock = NoProc
    /\ pc = [p \in Procs |-> "idle"]
    /\ call = [p \in Procs |-> NoCall]
    /\ now = StartTime
    /\ utc_offset = 0
    /\ ncalls = 0
    /\ \E limit \in MonitorLimits :
          main = [p \in Procs |->
                    IF p = Monitor
                    THEN [NoMain EXCEPT !.key_id = K1, !.token_limit = limit,
                                        !.timezone = "UTC"]
                    ELSE NoMain]

NextScoped ==
    \/ loop_read(Monitor)
    \/ loop_create(Monitor)
    \/ loop_extract(Monitor)
    \/ loop_burn_rate(Monitor)
    \/ loop_daily(Monitor)
    \/ loop_daily_skip(Monitor)
    \/ daily_calls(Monitor)
    \/ daily_upsert(Monitor)
    \/ loop_alerts(Monitor)
    \/ alert_select(Monitor)
    \/ alert_insert(Monitor)
    \/ loop_predict(Monitor)
    \/ loop_render(Monitor)
    \/ keyboard_interrupt(Monitor)
    \/ create_session_update(Client, "s2", K2, NULL)
    \/ \E p \in Procs : create_session_insert(p)
    \/ \E u \in UsageArgs :
          log_api_call_insert(Client, "s2", u.model, u.prompt_tokens,
                              u.completion_tokens, u.cost, K2, NULL)
    \/ log_api_call_update(Client)
    \/ \E p \in Procs : Commit(p)
    \/ Tick(MaxTime)

SpecScoped == InitScoped /\ [][NextScoped]_vars

\* The reset time, asked for at any tick of the calendar, for the zones of
\* SpecReset and for a zone with daylight saving time.
DstZoneArgs == ZoneArgs \cup {SummerZone}

NextResetDst ==
    \/ \E tzinfo \in TzinfoArgs, z \in DstZoneArgs :
          next_reset_call(Monitor, TRUE, tzinfo, z)
    \/ \E z \in DstZoneArgs : next_reset_call(Monitor, FALSE, 0, z)
    \/ next_reset_return(Monitor)

SpecResetDst == InitReset /\ [][NextResetDst]_vars

\* The start of live monitoring on a file without an active session (a new
\* file, a migrated older file without rows, a file whose only session is
\* closed), for a monitor with and without --key-id, while a client opens
\* sessions and logs calls.  MaxCalls bounds the client's calls; the calls the
\* loop makes up to its first pass with a session (the read, create_session,
\* the read again) come on top of them.
LoopCalls == 3

ClosedSessionDb ==
    [EmptyDb EXCEPT !.usage_sessions =
        <<[NewSession("s1", NULL, StartTime - 1) EXCEPT !.is_active = 0,
                                                        !.end_time = StartTime]>>]

LiveDatabases == {EmptyDb, MigratedEmptyDb, ClosedSessionDb}

InitLive ==
    /\ db \in LiveDatabases
    /\ txn = [p \in Procs |-> NoTxn]
    /\ lock = NoProc
    /\ pc = [p \in Procs |-> "idle"]
    /\ call = [p \in Procs |-> NoCall]
    /\ now = StartTime
    /\ utc_offset = 0
    /\ ncalls = 0 - LoopCalls
    /\ \E k \in TrackerKeys :
          main = [p \in Procs |->
                    IF p = Monitor
                    THEN [NoMain EXCEPT !.demo = FALSE, !.key_id = k,
                                        !.token_limit = 100000, !.timezone = "UTC"]
                    ELSE NoMain]

ClientMayCall == ncalls < MaxCalls - LoopCalls

NextLive ==
    \/ loop_read(Monitor)
    \/ loop_create(Monitor)
    \/ keyboard_interrupt(Monitor)
    \/ \E p \in Procs : create_session_insert(p)
    \/ \E p \in Procs : Commit(p)
    \/ /\ ClientMayCall
       /\ \E k \in TrackerKeys : create_session_update(Client, NULL, k, NULL)
    \/ /\ ClientMayCall
       /\ log_api_call_insert(Client, "s1", "gpt-4", 2, 1, 3, NULL, NULL)
    \/ log_api_call_update(Client)
    \/ Tick(MaxTime)

\* The monitor process runs, and so does the client: a step either can take
\* is taken (a statement that waits for SQLite's write lock gets it once the
\* holder has committed).
FairLive ==
    /\ WF_vars(loop_read(Monitor))
    /\ WF_vars(loop_create(Monitor))
    /\ \A p \in Procs : WF_vars(create_session_insert(p))
    /\ \A p \in Procs : WF_vars(Commit(p))
    /\ WF_vars(log_api_call_update(Client))

SpecLive == InitLive /\ [][NextLive]_vars /\ FairLive

\* ------------------------------------------------------------------ claims
\* The indices of the active session rows whose key_id is k.
ActiveOf(rows, k) ==
    {i \in DOMAIN rows : rows[i].is_active = 1 /\ rows[i].key_id = k}

\* This step is the conn.commit() that ends p's call of method op.
Commits(p, op) == pc[p] = "commit" /\ call[p].op = op /\ pc'[p] # "commit"

\* The api_calls rows that carry session_id.
EventsOf(rows, session_id) == SelectSeq(rows, LAMBDA r : r.session_id = session_id)

\* C1: in every committed state, for every credential scope (every key_id
\* value a session row carries, NULL being the unscoped default), at most
\* one usage_sessions row has is_active = 1.
C1_OneActivePerScope ==
    \A i \in DOMAIN db.usage_sessions :
        Cardinality(ActiveOf(db.usage_sessions, db.usage_sessions[i].key_id)) <= 1

\* C2: when create_session(B, K) commits and A was an active session of K
\* with another session id, A is afterwards inactive with end_time the time
\* of the call, not later than B's start_time, and B is K's only active
\* session.
C2_OpenClosesPrevious ==
    [][\A p \in Procs : Commits(p, "create_session") =>
          \A i \in DOMAIN db.usage_sessions :
             LET A == db.usage_sessions[i]
                 B == call[p].session_id
                 K == call[p].key_id
             IN  (A.is_active = 1 /\ A.key_id = K /\ A.session_id # B) =>
                    /\ \E j \in DOMAIN db'.usage_sessions :
                          db'.usage_sessions[j] =
                             [A EXCEPT !.is_active = 0, !.end_time = call[p].at]
                    /\ \A j \in DOMAIN db'.usage_sessions :
                          db'.usage_sessions[j].session_id = B =>
                             call[p].at <= db'.usage_sessions[j].start_time
                    /\ \A j \in ActiveOf(db'.usage_sessions, K) :
                          db'.usage_sessions[j].session_id = B
                    /\ ActiveOf(db'.usage_sessions, K) # {}
      ]_vars

\* C3: once two processes that opened sessions s1 and s2 for the same
\* credential scope have both committed, exactly one session of that scope
\* is active.
C3_ConcurrentOpenOneActive ==
    \A i, j \in DOMAIN db.usage_sessions :
        LET A == db.usage_sessions[i]
            B == db.usage_sessions[j]
        IN  (A.session_id = "s1" /\ B.session_id = "s2" /\ A.key_id = B.key_id) =>
                Cardinality(ActiveOf(db.usage_sessions, A.key_id)) = 1

\* C4: a session never reopens: a session id that is inactive in the
\* committed database is not active after any step, and its totals are not
\* reset.
C4_NeverReopens ==
    [][\A i \in DOMAIN db.usage_sessions, j \in DOMAIN db'.usage_sessions :
          LET A  == db.usage_sessions[i]
              A2 == db'.usage_sessions[j]
          IN  (A.is_active = 0 /\ A2.session_id = A.session_id) =>
                 /\ A2.is_active = 0
                 /\ A2.total_tokens >= A.total_tokens
                 /\ A2.prompt_tokens >= A.prompt_tokens
                 /\ A2.completion_tokens >= A.completion_tokens
                 /\ A2.total_cost >= A.total_cost
      ]_vars

\* C5: create_session for scope K leaves every session row of every other
\* scope as it was: the row is still there, unchanged, after the commit.
C5_OtherScopesUntouched ==
    [][\A p \in Procs : Commits(p, "create_session") =>
          \A i \in DOMAIN db.usage_sessions :
             db.usage_sessions[i].key_id # call[p].key_id =>
                \E j \in DOMAIN db'.usage_sessions :
                   db'.usage_sessions[j] = db.usage_sessions[i]
      ]_vars

\* C6: every api_calls row, written by log_api_call or by the demo seeding,
\* has total_tokens = prompt_tokens + completion_tokens.
C6_TotalIsPromptPlusCompletion ==
    \A p \in Procs : \A i \in DOMAIN View(p).api_calls :
        LET r == View(p).api_calls[i]
        IN  r.total_tokens = r.prompt_tokens + r.completion_tokens

\* Rows of both writers are there: a seeded one and a logged one with tokens.
C6_Witness ==
    \E i, j \in DOMAIN db.api_calls :
        /\ db.api_calls[i].session_id = "demo_session"
        /\ db.api_calls[j].session_id = "s1"
        /\ db.api_calls[j].prompt_tokens > 0
        /\ db.api_calls[j].completion_tokens > 0

\* C7: log_api_call(s, model, p, c, cost) commits, in one step, exactly one
\* new api_calls row and, on the row of session s, total_tokens + (p + c),
\* prompt_tokens + p, completion_tokens + c, total_cost + cost and
\* model = model; every other session row and every other column stays, and
\* no step between the INSERT and the commit changes the committed database.
C7_LogAppendsAndIncrements ==
    [][\A p \in Procs :
          /\ (call[p].op = "log_api_call" /\ ~Commits(p, "log_api_call")) => db' = db
          /\ Commits(p, "log_api_call") =>
                LET c == call[p]
                IN  /\ db'.api_calls =
                          Append(db.api_calls,
                                 [session_id |-> c.session_id, key_id |-> c.key_id,
                                  timestamp |-> c.at, model |-> c.model,
                                  prompt_tokens |-> c.prompt_tokens,
                                  completion_tokens |-> c.completion_tokens,
                                  total_tokens |->
                                      c.prompt_tokens + c.completion_tokens,
                                  cost |-> c.cost])
                    /\ DOMAIN db'.usage_sessions = DOMAIN db.usage_sessions
                    /\ \A i \in DOMAIN db.usage_sessions :
                          LET r == db.usage_sessions[i]
                          IN  db'.usage_sessions[i] =
                                IF r.session_id = c.session_id
                                THEN [r EXCEPT
                                        !.total_tokens = r.total_tokens
                                            + c.prompt_tokens + c.completion_tokens,
                                        !.prompt_tokens =
                                            r.prompt_tokens + c.prompt_tokens,
                                        !.completion_tokens =
                                            r.completion_tokens + c.completion_tokens,
                                        !.total_cost = r.total_cost + c.cost,
                                        !.model = c.model]
                                ELSE r
      ]_vars

\* A call with tokens and a cost has been logged on an existing session.
C7_Witness ==
    \E i \in DOMAIN db.usage_sessions :
        /\ db.usage_sessions[i].prompt_tokens = 2
        /\ db.usage_sessions[i].completion_tokens = 1
        /\ db.usage_sessions[i].total_cost = 3
        /\ Len(EventsOf(db.api_calls, db.usage_sessions[i].session_id)) = 1

\* C8: whatever the interleaving of the processes that log calls on a
\* session, its committed totals are its initial totals (0) plus the sums
\* over the committed events of that session.
C8_NoLostUpdate ==
    \A i \in DOMAIN db.usage_sessions :
        LET r  == db.usage_sessions[i]
            ev == EventsOf(db.api_calls, r.session_id)
            n  == Len(ev)
        IN  /\ r.total_tokens = SumSeq([j \in 1..n |-> ev[j].total_tokens])
            /\ r.prompt_tokens = SumSeq([j \in 1..n |-> ev[j].prompt_tokens])
            /\ r.completion_tokens = SumSeq([j \in 1..n |-> ev[j].completion_tokens])
            /\ r.total_cost = SumSeq([j \in 1..n |-> ev[j].cost])

\* Two calls with tokens have been logged on s1.
C8_Witness ==
    \E i \in DOMAIN db.usage_sessions :
        /\ db.usage_sessions[i].session_id = "s1"
        /\ db.usage_sessions[i].total_tokens = 6
        /\ Len(EventsOf(db.api_calls, "s1")) >= 2

\* C9: the event log is append-only: every step of every operation leaves
\* the api_calls rows that were committed where they were, unchanged.
C9_EventsAppendOnly ==
    [][/\ Len(db'.api_calls) >= Len(db.api_calls)
       /\ SubSeq(db'.api_calls, 1, Len(db.api_calls)) = db.api_calls
      ]_vars

\* Events are there and the rollup has run over them.
C9_Witness ==
    /\ Len(db.api_calls) > 0
    /\ Len(db.daily_usage) > 0

\* C10: per alert kind, the calls made within one calendar day (the host's,
\* as datetime.now() dates them) insert one alert of that kind, not more:
\* no two alerts of one kind were inserted on the same calendar day.
C10_OneAlertPerDay ==
    \A i, j \in DOMAIN db.usage_alerts :
        (i # j /\ db.usage_alerts[i].alert_type = db.usage_alerts[j].alert_type) =>
            DateOf(db.usage_alerts[i].triggered_at + utc_offset)
                # DateOf(db.usage_alerts[j].triggered_at + utc_offset)

\* The alerts of one alert_type whose trigger date, DATE(triggered_at), is day.
AlertsOf(rows, alert_type, day) ==
    {i \in DOMAIN rows :
        rows[i].alert_type = alert_type /\ DateOf(rows[i].triggered_at) = day}

\* C11: with two processes running check_and_create_alerts at the same time,
\* in every interleaving of their existence checks and inserts the committed
\* usage_alerts table holds at most one alert per alert_type and trigger date.
C11_NoDuplicateAlertRace ==
    \A i \in DOMAIN db.usage_alerts :
        Cardinality(AlertsOf(db.usage_alerts, db.usage_alerts[i].alert_type,
                             DateOf(db.usage_alerts[i].triggered_at))) <= 1

\* C12: when check_and_create_alerts commits for a tracker of credential B,
\* every alert it inserted carries key_id B, and for every alert kind whose
\* condition the usage satisfies an alert of that kind, of today and of
\* credential B exists, whatever alerts other credentials have today.
C12_DedupPerCredential ==
    [][\A p \in Procs : Commits(p, "check_and_create_alerts") =>
          /\ \A i \in DOMAIN db'.usage_alerts :
                i > Len(db.usage_alerts) =>
                    db'.usage_alerts[i].key_id = call[p].key_id
          /\ \A j \in DOMAIN AlertsToCheck :
                ShouldTrigger(AlertsToCheck[j], call[p].usage) =>
                    \E i \in AlertsOf(db'.usage_alerts,
                                      AlertsToCheck[j].alert_type, DateOf(now)) :
                        db'.usage_alerts[i].key_id = call[p].key_id
      ]_vars

\* The condition of each alert kind, as the claim states it: tokens_used /
\* token_limit >= 0.5, 0.75, 0.9; total_cost >= 10, 50; burn_rate >= 500.
C13_Condition(alert_type, u) ==
    CASE alert_type = "token_usage_50"    -> u.tokens_used * 2 >= u.token_limit
      [] alert_type = "token_usage_75"    -> u.tokens_used * 4 >= u.token_limit * 3
      [] alert_type = "token_usage_90"    -> u.tokens_used * 10 >= u.token_limit * 9
      [] alert_type = "cost_threshold_10" -> u.total_cost >= 10
      [] alert_type = "cost_threshold_50" -> u.total_cost >= 50
      [] alert_type = "high_burn_rate"    -> u.burn_rate >= 500

\* The value a kind observes: the used fraction, the cost, the burn rate.
C13_Observed(alert_type, u) ==
    CASE alert_type \in {"token_usage_50", "token_usage_75", "token_usage_90"} ->
            <<u.tokens_used, u.token_limit>>
      [] alert_type \in {"cost_threshold_10", "cost_threshold_50"} -> <<u.total_cost, 1>>
      [] alert_type = "high_burn_rate" -> <<u.burn_rate, 1>>

\* C13: a check_and_create_alerts call commits an alert of a kind only when
\* the kind's condition holds for the usage it was given; and when the
\* condition holds and no alert of the kind exists for today it commits
\* exactly one, whose threshold_value is the kind's threshold and whose
\* current_value is the observed value.
C13_ThresholdsDecide ==
    [][Commits(Monitor, "check_and_create_alerts") =>
          \A j \in DOMAIN AlertsToCheck :
             LET t       == AlertsToCheck[j].alert_type
                 u       == call[Monitor].usage
                 new     == {i \in DOMAIN db'.usage_alerts :
                                /\ i > Len(db.usage_alerts)
                                /\ db'.usage_alerts[i].alert_type = t}
                 existed == AlertsOf(db.usage_alerts, t, DateOf(now)) # {}
             IN  /\ new # {} => C13_Condition(t, u)
                 /\ (C13_Condition(t, u) /\ ~existed) =>
                       /\ Cardinality(new) = 1
                       /\ \A i \in new :
                             /\ db'.usage_alerts[i].threshold_value =
                                   CASE t = "token_usage_50" -> 50   \* percent
                                     [] t = "token_usage_75" -> 75
                                     [] t = "token_usage_90" -> 90
                                     [] t = "cost_threshold_10" -> 10
                                     [] t = "cost_threshold_50" -> 50
                                     [] t = "high_burn_rate" -> 500
                             /\ db'.usage_alerts[i].current_value = C13_Observed(t, u)
      ]_vars

\* At 60% of the limit the 50% alert is there and the 75% and 90% are not;
\* a cost of exactly 10 and a burn rate of exactly 500 have fired theirs.
C13_Witness ==
    /\ \E i \in DOMAIN db.usage_alerts :
          /\ db.usage_alerts[i].alert_type = "token_usage_50"
          /\ db.usage_alerts[i].current_value = <<60, 100>>
    /\ \E i \in DOMAIN db.usage_alerts :
          /\ db.usage_alerts[i].alert_type = "cost_threshold_10"
          /\ db.usage_alerts[i].current_value = <<10, 1>>
    /\ \E i \in DOMAIN db.usage_alerts :
          db.usage_alerts[i].alert_type = "high_burn_rate"
    /\ \A i \in DOMAIN db.usage_alerts :
          db.usage_alerts[i].alert_type \notin {"token_usage_75", "token_usage_90"}

\* The api_calls rows of one calendar date and one credential (NULL: the
\* unscoped default).
EventsOfDay(rows, date, key_id) ==
    SelectSeq(rows, LAMBDA r : DateOf(r.timestamp) = date /\ r.key_id = key_id)

\* Two tables hold the same rows, each the same number of times.
SameRows(a, b) ==
    /\ Len(a) = Len(b)
    /\ \A i \in DOMAIN a :
          Cardinality({j \in DOMAIN a : a[j] = a[i]})
              = Cardinality({j \in DOMAIN b : b[j] = a[i]})

\* C14: update_daily_usage is idempotent: when a call for (date, credential)
\* commits and the table already holds a summary of that (date, credential)
\* computed over the same events (none was appended since), the daily_usage
\* table is left with the rows it had.
C14_RollupIdempotent ==
    [][Commits(Monitor, "update_daily_usage") =>
          LET c      == call[Monitor]
              events == EventsOfDay(db.api_calls, c.date, c.key_id)
          IN  (\E i \in DOMAIN db.daily_usage :
                  /\ db.daily_usage[i].date = c.date
                  /\ db.daily_usage[i].key_id = c.key_id
                  /\ db.daily_usage[i].api_calls_count = Len(events))
              => SameRows(db'.daily_usage, db.daily_usage)
      ]_vars

\* C15: when update_daily_usage for (today, k) commits and the day has at
\* least one event of k, the table holds a summary of (today, k) whose
\* total_tokens, total_cost and api_calls_count are the sum of total_tokens,
\* the sum of cost and the number of those events.
C15_RollupTotals ==
    [][Commits(Monitor, "update_daily_usage") =>
          LET c      == call[Monitor]
              events == EventsOfDay(db.api_calls, c.date, c.key_id)
              n      == Len(events)
          IN  n > 0 =>
                \E i \in DOMAIN db'.daily_usage :
                   LET r == db'.daily_usage[i]
                   IN  /\ r.date = c.date
                       /\ r.key_id = c.key_id
                       /\ r.total_tokens = SumSeq([j \in 1..n |-> events[j].total_tokens])
                       /\ r.total_cost = SumSeq([j \in 1..n |-> events[j].cost])
                       /\ r.api_calls_count = n
      ]_vars

\* C16: the committed daily_usage table holds at most one row per calendar
\* date and credential, the unscoped default (key_id NULL) included.
C16_OneSummaryPerDayAndKey ==
    \A i, j \in DOMAIN db.daily_usage :
        (db.daily_usage[i].date = db.daily_usage[j].date
         /\ db.daily_usage[i].key_id = db.daily_usage[j].key_id) => i = j

RECURSIVE Factorial(_)
\* n!, a common multiple of every time difference (in ticks) within a day.
Factorial(n) == IF n <= 1 THEN 1 ELSE n * Factorial(n - 1)

\* The slopes of a day's events, as the claim states them: over adjacent
\* pairs in ascending timestamp order with a positive time difference,
\* delta_tokens / delta_minutes; each one scaled by
\* Factorial(DayLen) * MinutesPerTick to make it an integer.
ScaledSlopes(events) ==
    LET ordered == OrderByTimestamp(events)
        pairs   == [j \in 1..(Len(ordered) - 1) |->
                       <<ordered[j + 1].total_tokens - ordered[j].total_tokens,
                         ordered[j + 1].timestamp - ordered[j].timestamp>>]
        kept    == SelectSeq(pairs, LAMBDA q : q[2] > 0)
    IN  [j \in DOMAIN kept |-> kept[j][1] * (Factorial(DayLen) \div kept[j][2])]

\* C18: the avg_burn_rate and peak_burn_rate that update_daily_usage commits
\* for a day are the mean and the maximum of the slopes of that day's events
\* of the credential, and both are 0 when there is no slope (fewer than two
\* events, or no pair with a positive time difference).
C18_DailyAverageAndPeak ==
    [][(Commits(Monitor, "update_daily_usage") /\ txn[Monitor] # NoTxn) =>
          LET c      == call[Monitor]
              row    == db'.daily_usage[Len(db'.daily_usage)]
              slopes == ScaledSlopes(EventsOfDay(db.api_calls, c.date, c.key_id))
              scale  == Factorial(DayLen) * MinutesPerTick
              n      == Len(slopes)
          IN  /\ row.date = c.date /\ row.key_id = c.key_id
              /\ row.avg_burn_rate[2] > 0 /\ row.peak_burn_rate[2] > 0
              /\ IF n = 0
                 THEN row.avg_burn_rate[1] = 0 /\ row.peak_burn_rate[1] = 0
                 ELSE /\ row.avg_burn_rate[1] * scale * n
                            = SumSeq(slopes) * row.avg_burn_rate[2]
                      /\ \E j \in 1..n :
                            row.peak_burn_rate[1] * scale
                                = slopes[j] * row.peak_burn_rate[2]
                      /\ \A j \in 1..n :
                            row.peak_burn_rate[1] * scale
                                >= slopes[j] * row.peak_burn_rate[2]
      ]_vars

\* A day with two slopes whose mean is below their maximum has been rolled
\* up, and so has a day of a single event.
C18_Witness ==
    /\ \E i \in DOMAIN db.daily_usage :
          LET r == db.daily_usage[i]
          IN  /\ r.api_calls_count = 3
              /\ r.avg_burn_rate[1] * r.peak_burn_rate[2]
                    < r.peak_burn_rate[1] * r.avg_burn_rate[2]

\* The wall-clock reading of an aware datetime in the zone of offset tz.
WallIn(datetime, tz) == (datetime.wall - datetime.tzinfo) + tz

\* C19: for a known timezone, get_next_reset_time returns 00:00:00 on day 1
\* of the calendar month that follows the month of the current time as seen
\* in that timezone: the same year's next month, or January of the next
\* year when the current month is December.
C19_FirstOfNextMonth ==
    \A p \in Procs :
        (pc[p] = "reset_time" /\ call[p].timezone \in DOMAIN KnownZones) =>
            LET tz  == KnownZones[call[p].timezone]
                ct  == call[p].current_time
                cur == YMD(IF ct.aware THEN WallIn(ct, tz) ELSE ct.wall)
                res == WallIn(call[p].reset_time, tz)
                ymd == YMD(res)
            IN  /\ call[p].reset_time.error = NULL
                /\ call[p].reset_time.aware
                /\ res % DayLen = 0
                /\ ymd[3] = 1
                /\ IF cur[2] = 12
                   THEN ymd[1] = cur[1] + 1 /\ ymd[2] = 1
                   ELSE ymd[1] = cur[1] /\ ymd[2] = cur[2] + 1

\* A call made on 15 March 2024 for UTC returned 1 April 2024, 00:00 UTC.
C19_Witness ==
    \E p \in Procs :
        /\ pc[p] = "reset_time"
        /\ call[p].timezone = "UTC"
        /\ YMD(call[p].current_time.wall) = <<2024, 3, 15>>
        /\ call[p].current_time.aware
        /\ call[p].current_time.tzinfo = 0
        /\ YMD(call[p].reset_time.wall) = <<2024, 4, 1>>
        /\ call[p].reset_time.wall % DayLen = 0
        /\ call[p].reset_time.tzinfo = 0

\* C20: called with a timezone name pytz does not know, get_next_reset_time
\* raises nothing and returns what it returns for the same current time and
\* 'UTC'.
C20_UnknownZoneIsUTC ==
    \A p \in Procs :
        (pc[p] = "reset_time" /\ call[p].timezone \notin DOMAIN KnownZones) =>
            /\ call[p].reset_time.error = NULL
            /\ call[p].reset_time = get_next_reset_time(call[p].current_time, "UTC")

\* A call with an unknown zone name has returned, for a current time whose
\* month differs between UTC and the caller's own offset.
C20_Witness ==
    \E p \in Procs :
        /\ pc[p] = "reset_time"
        /\ call[p].timezone = "Mars/Olympus"
        /\ call[p].current_time.aware
        /\ call[p].current_time.tzinfo = 1
        /\ YMD(call[p].current_time.wall)[2] # YMD(WallIn(call[p].current_time, 0))[2]

\* C21: the predicted exhaustion time is now + tokens_remaining / burn_rate
\* when burn_rate > 0 and tokens_remaining > 0, and is reset_time in every
\* other case; with burn_rate = 0 it is reset_time whatever tokens_remaining.
C21_PredictedExhaustion ==
    \A p \in Procs :
        pc[p] = "predicted" =>
            LET burn_rate == call[p].burn_rate
                remaining == call[p].tokens_left
                predicted == call[p].predicted_end_time
                at        == MinutesOf(call[p].current_time)
                reset     == MinutesOf(call[p].reset_time)
            IN  /\ (burn_rate[1] > 0 /\ remaining > 0) =>
                      /\ predicted[2] > 0
                      /\ (predicted[1] - (at * predicted[2])) * burn_rate[1]
                            = remaining * burn_rate[2] * predicted[2]
                /\ ~(burn_rate[1] > 0 /\ remaining > 0) => predicted = <<reset, 1>>
                /\ burn_rate[1] = 0 => predicted = <<reset, 1>>

\* A pass with tokens left and no burn predicted the reset time, which is
\* later than the current time.
C21_Witness ==
    \E p \in Procs :
        /\ pc[p] = "predicted"
        /\ call[p].burn_rate[1] = 0
        /\ call[p].tokens_left = 1000
        /\ call[p].predicted_end_time = <<MinutesOf(call[p].reset_time), 1>>
        /\ MinutesOf(call[p].reset_time) > MinutesOf(call[p].current_time)

\* C22: add_key with a key_name that a row of api_keys already carries
\* changes no state: no step adds a credential row whose key_name was
\* already there.
C22_DuplicateNameRejected ==
    [][Len(db'.api_keys) > Len(db.api_keys) =>
          \A j \in DOMAIN db.api_keys :
              db.api_keys[j].key_name # db'.api_keys[Len(db'.api_keys)].key_name
      ]_vars

\* C23: removing a credential does not delete it: every credential row of
\* the registry is still there after every step (remove_key included), and
\* list_keys still returns it.
C23_RemoveDeactivates ==
    [][\A i \in DOMAIN db.api_keys :
          /\ \E j \in DOMAIN db'.api_keys :
                db'.api_keys[j].key_id = db.api_keys[i].key_id
          /\ \E j \in DOMAIN ListKeys(db'.api_keys) :
                ListKeys(db'.api_keys)[j].key_id = db.api_keys[i].key_id
      ]_vars

\* The columns that hold text, and the text values of a row or dict.
TextColumns ==
    {"key_id", "key_name", "key_description", "api_key_hash", "session_id",
     "model", "alert_type"}
TextValues(row) == {row[c] : c \in DOMAIN row \cap TextColumns}

\* The rows of every table of a database.
AllRows(database) ==
    UNION {{database[t][j] : j \in DOMAIN database[t]} : t \in Tables}

\* C24: no persisted row holds a raw secret, the api_key_hash column holds
\* the digest of a secret, and what list_keys, get_key and
\* get_key_usage_summary return holds neither a secret nor a digest (and no
\* api_key_hash entry).
C24_SecretsNeverExposed ==
    /\ \A row \in AllRows(db) : TextValues(row) \cap RegistrySecrets = {}
    /\ \A j \in DOMAIN db.api_keys :
          \E a \in RegistrySecrets : db.api_keys[j].api_key_hash = hash_api_key(a)
    /\ \A p \in Procs :
          pc[p] = "returned" =>
             \A j \in DOMAIN call[p].returned :
                 /\ "api_key_hash" \notin DOMAIN call[p].returned[j]
                 /\ TextValues(call[p].returned[j])
                       \cap (RegistrySecrets \cup {hash_api_key(a) : a \in RegistrySecrets})
                    = {}

\* list_keys has returned two registered keys whose rows hold the digests of
\* two different secrets.
C24_Witness ==
    \E p \in Procs :
        /\ pc[p] = "returned"
        /\ call[p].op = "list_keys"
        /\ Len(call[p].returned) = 2
        /\ \E i, j \in DOMAIN db.api_keys :
              db.api_keys[i].api_key_hash # db.api_keys[j].api_key_hash

\* C25: budget settings are upserted: after any number of budget-setting
\* runs budget_settings holds one row per month and credential scope (the
\* unscoped default included), never two.
C25_BudgetUpserted ==
    \A i, j \in DOMAIN db.budget_settings :
        (db.budget_settings[i].month_year = db.budget_settings[j].month_year
         /\ db.budget_settings[i].key_id = db.budget_settings[j].key_id) => i = j

\* The rows of table t carry, after the step, everything they carried
\* before it, in the same order.
RowsKept(t) ==
    /\ Len(db'[t]) = Len(db[t])
    /\ \A j \in DOMAIN db[t] :
          \A c \in DOMAIN db[t][j] :
              c \in DOMAIN db'[t][j] /\ db'[t][j][c] = db[t][j][c]

\* C28: a run of init_database, on a database it initialised before or on
\* an older one whose tables lack the key_id column, changes and deletes no
\* existing row, leaves every table with exactly one key_id column, and a
\* further run changes nothing.
C28_InitAdditiveIdempotent ==
    [][ncalls' # ncalls =>
          /\ \A t \in Tables :
                /\ RowsKept(t)
                /\ Cardinality({i \in DOMAIN db'.columns[t] :
                                   db'.columns[t][i] = "key_id"}) = 1
                /\ \A i \in DOMAIN db.columns[t] : db'.columns[t][i] = db.columns[t][i]
          /\ MigrateSchema(CreateTablesIfNotExist(db')) = db'
          /\ (\A t \in Tables : HasColumn(db, t, "key_id")) => db' = db
      ]_vars

\* init_database has run on an older database: usage_sessions holds the row
\* it held, now with a NULL key_id in a column appended after created_at.
C28_Witness ==
    /\ ncalls > 0
    /\ Len(db.usage_sessions) = 1
    /\ db.usage_sessions[1].key_id = NULL
    /\ db.columns.usage_sessions[Len(db.columns.usage_sessions)] = "key_id"
    /\ db.columns.api_calls[3] = "key_id"

\* C26: a runtime error raised inside a pass of the monitoring loop never
\* ends the loop: the only exception the process ever exits with is the
\* external interrupt.
C26_LoopSurvivesErrors ==
    \A p \in Procs :
        main[p].at = "exited" => main[p].raised = "KeyboardInterrupt"

\* C27: an external interrupt, in whatever state of the loop it arrives (the
\* first pass before any frame was rendered included), makes the process
\* stop with exit status 0.
C27_InterruptExitsZero ==
    \A p \in Procs :
        (main[p].at = "exited" /\ main[p].raised = "KeyboardInterrupt") =>
            main[p].exit_status = 0

\* C29: compare_keys returns exactly one row for each key that has at least
\* one call in the window and no row for any other key, the rows are in
\* non-increasing order of total tokens, and the grand totals are those of
\* the window's calls.
C29_CompareKeysRows ==
    [][(pc[Monitor] = "idle" /\ pc'[Monitor] = "returned"
        /\ call'[Monitor].op = "compare_keys") =>
          LET res      == call'[Monitor].returned[1]
              rows     == res.key_comparisons
              inwindow == SelectSeq(db.api_calls,
                              LAMBDA r : InWindow(r.timestamp, res.period_days))
              used     == {inwindow[j].key_id : j \in DOMAIN inwindow} \ {NULL}
          IN  /\ \A k \in used :
                    Cardinality({j \in DOMAIN rows : rows[j].key_id = k}) = 1
              /\ \A j \in DOMAIN rows : rows[j].key_id \in used
              /\ \A j \in 1..(Len(rows) - 1) :
                    rows[j].total_tokens >= rows[j + 1].total_tokens
              /\ res.total_tokens =
                    SumSeq([j \in DOMAIN inwindow |-> inwindow[j].total_tokens])
              /\ res.total_calls = Len(inwindow)]_vars

\* C30: a create_session call made without an explicit session id adds a new
\* session row: its id is the id of no row already in the database, so no
\* earlier session (of the same second and another key included) is replaced.
C30_AutoSessionIdsDistinct ==
    [][\A p \in Procs :
          (Commits(p, "create_session") /\ call[p].session_id \notin SessionArgs) =>
             /\ \A i \in DOMAIN db.usage_sessions :
                   db.usage_sessions[i].session_id # call[p].session_id
             /\ Len(db'.usage_sessions) = Len(db.usage_sessions) + 1
      ]_vars

\* C31: the sessions create_session closes are exactly the previously active
\* sessions whose key_id equals the key_id it then stores on the new row,
\* whatever key_id the caller gave (a non-empty string, the empty string or
\* none).
C31_ClosesExactlyItsScope ==
    [][\A p \in Procs :
          (pc[p] = "idle" /\ pc'[p] = "cs_insert"
           /\ call'[p].op = "create_session") =>
             \A i \in DOMAIN db.usage_sessions :
                LET A      == db.usage_sessions[i]
                    closed == A.is_active = 1
                              /\ txn'[p].usage_sessions[i].is_active = 0
                IN  closed <=> (A.is_active = 1 /\ A.key_id = call'[p].key_id)
      ]_vars

\* C32: after any sequence of create_session and log_api_call calls, the
\* running totals of every session row (total_tokens, prompt_tokens,
\* completion_tokens, total_cost) are the sums of those columns over the
\* api_calls rows that carry the session's id.
C32_TotalsAreEventSums ==
    \A i \in DOMAIN db.usage_sessions :
        LET s       == db.usage_sessions[i]
            ev      == EventsOf(db.api_calls, s.session_id)
            Sum(c)  == SumSeq([j \in DOMAIN ev |-> ev[j][c]])
        IN  <<s.total_tokens, s.prompt_tokens, s.completion_tokens, s.total_cost>> =
            <<Sum("total_tokens"), Sum("prompt_tokens"), Sum("completion_tokens"),
              Sum("cost")>>

\* C33: every api_calls row belongs to an existing session of its own
\* credential scope: a usage_sessions row has its session_id and its key_id
\* (so a call logged with an unknown session id, or with a key_id other than
\* the session's, leaves no api_calls row).
C33_EventsBelongToSessions ==
    \A j \in DOMAIN db.api_calls :
        \E i \in DOMAIN db.usage_sessions :
            /\ db.usage_sessions[i].session_id = db.api_calls[j].session_id
            /\ db.usage_sessions[i].key_id = db.api_calls[j].key_id

\* C34: on a database whose usage_sessions table init_database created, the
\* values a pass of the monitoring loop takes from the active session row
\* are the ones it names: tokens_used, prompt_tokens, completion_tokens,
\* total_cost and the start time are the row's total_tokens, prompt_tokens,
\* completion_tokens, total_cost and start_time.
C34_LoopReadsNamedColumns ==
    [][\A p \in Procs :
          (main[p].at = "extract" /\ main'[p].at # "extract"
           /\ main'[p].raised # "KeyboardInterrupt"
           /\ db.columns.usage_sessions = CreateTableColumns.usage_sessions) =>
             LET columns == db.columns.usage_sessions
                 row     == main[p].active_session[1]
             IN  /\ main'[p].at = "burn_rate"
                 /\ main'[p].tokens_used = row.total_tokens
                 /\ main'[p].total_cost = row.total_cost
                 /\ RowValue(row, columns, 5) = row.prompt_tokens
                 /\ RowValue(row, columns, 6) = row.completion_tokens
                 /\ RowValue(row, columns, 2) = row.start_time
      ]_vars

\* C35: what a pass of the loop of a monitor constructed with key_id K gets
\* from get_local_usage_data is scoped to K: the active session is a session
\* of K and every recent call is a call of K.
C35_ViewScopedToKey ==
    [][(main[Monitor].at = "top" /\ main'[Monitor].at = "extract") =>
          /\ main'[Monitor].active_session[1].key_id = main[Monitor].key_id
          /\ \A j \in DOMAIN main'[Monitor].recent_calls :
                main'[Monitor].recent_calls[j].key_id = main[Monitor].key_id
      ]_vars

\* C36: the calendar date check_and_create_alerts looks up as today is the
\* date DATE(triggered_at) yields for an alert inserted at the same instant,
\* on every host clock and UTC offset: the alert a call has just inserted is
\* one its own existence check, made at that instant, finds.
C36_TodayIsTriggerDate ==
    [][\A p \in Procs :
          (pc[p] = "alert_insert" /\ pc'[p] # "alert_insert"
           /\ txn'[p] # NoTxn) =>
             LET rows == txn'[p].usage_alerts
                 new  == rows[Len(rows)]
             IN  /\ DateOf(new.triggered_at) = DateOf(LocalNow)
                 /\ AlertExists(rows, new.alert_type, DateOf(LocalNow))
      ]_vars

\* The instant, on the UTC clock, of a datetime; a naive one is read in the
\* zone tz.
InstantOf(datetime, tz) ==
    IF datetime.aware THEN datetime.wall - datetime.tzinfo
    ELSE datetime.wall - Localize(tz, datetime).tzinfo

\* C37: for every current time and timezone, the reset time that
\* get_next_reset_time returns is strictly later than the current time and
\* at most 31 days later.
C37_ResetWithin31Days ==
    \A p \in Procs :
        (pc[p] = "reset_time" /\ call[p].reset_time.error = NULL) =>
            LET tz      == TargetTz(call[p].timezone)
                current == InstantOf(call[p].current_time, tz)
                reset   == InstantOf(call[p].reset_time, tz)
            IN  /\ reset > current
                /\ reset - current <= 31 * DayLen

\* C38: in the result of compare_keys the grand totals are the sums over the
\* per-key rows (tokens, cost and calls), whatever was logged, calls logged
\* under no key and calls of keys removed since included.
C38_TotalsAreRowSums ==
    [][(pc[Monitor] = "idle" /\ pc'[Monitor] = "returned"
        /\ call'[Monitor].op = "compare_keys") =>
          LET res  == call'[Monitor].returned[1]
              rows == res.key_comparisons
          IN  /\ res.total_tokens =
                    SumSeq([j \in DOMAIN rows |-> rows[j].total_tokens])
              /\ res.total_cost = SumSeq([j \in DOMAIN rows |-> rows[j].total_cost])
              /\ res.total_calls = SumSeq([j \in DOMAIN rows |-> rows[j].total_calls])
      ]_vars

\* C39: live monitoring started without an active session does not stay in
\* the no-active-session branch: unless it is interrupted, the loop reaches a
\* pass in which get_local_usage_data returns an active session.
C39_LoopFindsSession ==
    <>(main[Monitor].at = "extract" \/ main[Monitor].at = "exited")

\* The loop has found the session its own create_session opened.
C39_Witness ==
    /\ main[Monitor].at = "extract"
    /\ main[Monitor].active_session[1].session_id \notin SessionArgs
    /\ ncalls > 0 - LoopCalls + 2

\* C40: add_key with a key_name that no row of api_keys carries succeeds: it
\* adds exactly one credential row, whose key_id differs from every existing
\* one, also when another credential was registered in the same clock second.
C40_NewNameAccepted ==
    [][\A a \in RegistrySecrets, n \in KeyNames :
          (/\ add_key(Monitor, a, n, "")
           /\ \A j \in DOMAIN db.api_keys : db.api_keys[j].key_name # n) =>
             /\ Len(db'.api_keys) = Len(db.api_keys) + 1
             /\ db'.api_keys[Len(db'.api_keys)].key_name = n
             /\ \A j \in DOMAIN db.api_keys :
                   db.api_keys[j].key_id # db'.api_keys[Len(db'.api_keys)].key_id
      ]_vars
====
